---- MODULE Spec2Model ----
(***************************************************************************)
(* Fleet retraining control plane of azure-ml-sensor-predictions.          *)
(*                                                                         *)
(* Part 1 (specification Spec): the Job Monitor,                           *)
(*   scripts/pipeline/monitor_training_jobs.py, as a poll loop against a   *)
(*   training backend whose jobs advance on their own.  TimedSpec is the   *)
(*   same with time passing during the status queries, LiveSpec that with  *)
(*   the monitor's process scheduled fairly.                               *)
(*                                                                         *)
(* Part 2 (specification PipelineSpec): the stages around it, a run of a   *)
(*   stage being one step: register_mltables (detect_changed_circuits.py), *)
(*   submit_training_jobs (submit_training_jobs.py) and register_models    *)
(*   (register_models.py), against the workspace's data assets, models and *)
(*   jobs, while the configuration is edited and jobs finish.  RaceSpec    *)
(*   is two runs of register_mltables on one circuit at the same time.     *)
(*                                                                         *)
(* Part 3 (specification PromotionSpec): the Promotion Gate,                *)
(*   promote_models_individually.py (approval checked per model) and       *)
(*   promote_to_registry.py (no approval), as passes over the file of      *)
(*   registered models against the shared registry, while the approval     *)
(*   file is edited.                                                       *)
(*                                                                         *)
(* Part 4 (specification BatchSpec): one trip of a batch of two circuits   *)
(*   through the stages of part 2 and the gated promotion of part 3;       *)
(*   AnyConfigSpec is the same over entries that may lack plant_id or      *)
(*   circuit_id, RegistrarSpec the same with scripts/register_mltable.py   *)
(*   run by hand.                                                          *)
(*                                                                         *)
(* Part 5 (specification HashSpec): the three hash functions,              *)
(*   generate_config_hash, the data fingerprint of register_mltables and   *)
(*   calculate_training_hash, applied to a configuration and to one edit   *)
(*   of it.                                                                *)
(*                                                                         *)
(* Time is counted in abstract ticks.  The monitor reads the wall clock    *)
(* once per loop iteration (line 75), so everything that takes time        *)
(* between two readings (the status queries, the sleep) is folded into the *)
(* step that leads to the next reading.                                    *)
(***************************************************************************)
EXTENDS Integers, Sequences, FiniteSets, TLC

\* ------------------------------------------------------------------ bounds
MaxPollInterval == 2   \* poll_interval ranges over 1..MaxPollInterval ticks
MaxWait == 2           \* max_wait_seconds ranges over 0..MaxWait ticks
MaxLatency == 1        \* extra ticks a step may take beyond its nominal time

\* The clock saturates strictly above every deadline the model can configure,
\* so "elapsed > max_wait_seconds" is never lost by the cap.
MaxClock == MaxWait + MaxPollInterval + MaxLatency + 1

\* The iterations the while loop can make: a poll cycle begins with at most
\* MaxWait ticks elapsed and is followed by a sleep of a tick or more, and
\* one more iteration finds the deadline passed.  The loop is cut here, which
\* the monitor never reaches.
MaxPolls == MaxWait + 2

\* ------------------------------------------------------------- job backend
JobNames == {"A", "B", "C"}

NonTerminalStatus == {"Queued", "Running"}
TerminalStatus == {"Completed", "Failed", "Canceled"}
Status == NonTerminalStatus \cup TerminalStatus

VARIABLES
    \* --- inputs of monitor_training_jobs
    submitted_jobs,      \* data['submitted_jobs']: job names, in file order
    poll_interval,
    max_wait_seconds,
    \* --- the training backend and the wall clock (environment)
    backend,             \* job name -> status reported by ml_client.jobs.get
    clock,               \* time.time()
    \* --- locals of monitor_training_jobs
    pc,
    start_time,
    poll_count,
    elapsed_seconds,
    pending_job_names,
    completed,
    failed,
    timeout_jobs,
    to_poll,             \* list(pending_job_names) not yet visited by the for loop
    \* --- history of the run (read by the properties only)
    slept,               \* number of time.sleep calls
    errored,             \* jobs whose status query raised in this poll cycle
    terminal_at,         \* job -> poll_count at which a terminal status was read
    terminal_before,     \* every job was terminal at the backend when monitoring began
    raised_first         \* a status query raised during the first poll cycle

monitorVars == <<submitted_jobs, poll_interval, max_wait_seconds, backend, clock,
                 pc, start_time, poll_count, elapsed_seconds, pending_job_names,
                 completed, failed, timeout_jobs, to_poll,
                 slept, errored, terminal_at, terminal_before, raised_first>>

VARIABLES
    \* --- the configuration store
    circuits_yaml,       \* config/circuits.yaml: unit -> its entry
    edits_left,          \* configuration changes still to come
    \* --- the workspace (registry and job backend)
    data_assets,         \* unit -> versions of its MLTable, oldest first
    models,              \* unit -> versions of its model, oldest first
    jobs,                \* the training jobs the backend holds
    \* --- what the stages hand on
    registered_circuits, \* what the last register_mltables run handed to main:
                         \* whether it raised, and the list it returned
    training_jobs,       \* training_jobs.json of the last submission run
    \* --- history of the runs (read by the properties only)
    prev_data_hash,      \* unit -> the data hash the last register_mltables run
                         \* registered or found; NoHash when it did neither or
                         \* the unit's data fields were edited since
    prev_submit_hash     \* unit -> that data hash, when the submission run that
                         \* followed skipped the unit or had its job accepted

pipelineVars == <<circuits_yaml, edits_left, data_assets, models, jobs,
                  registered_circuits, training_jobs, prev_data_hash,
                  prev_submit_hash>>

VARIABLES
    \* --- input of the promotion scripts
    registered_models,   \* registered_models.json: the lists models and failed
    \* --- the approval source
    approval_file_exists, \* approval_status.json is there
    approvals,           \* its content: key -> status, "absent" for no entry
    \* --- the shared registry
    registry,            \* the model versions copied into it
    \* --- the promotion passes
    passes,              \* number of passes run so far
    promotion_result,    \* promotion_result.json of the last pass
    \* --- history of the passes (read by the properties only)
    statuses_met,        \* key -> which of "absent" and "rejected" the gated
                         \* passes have read for it
    unverified           \* the keys for which the last pass printed
                         \* "Promoted but verification failed"

promotionVars == <<registered_models, approval_file_exists, approvals, registry,
                   passes, promotion_result, statuses_met, unverified>>

VARIABLES
    \* --- scripts/register_mltable.py, run by hand
    dated_assets,        \* version label -> the data asset registered under it
    asset_clock,         \* datetime.now() of the registrations
    \* --- the hash functions, applied to a configuration and to an edit of it
    fleet_size,          \* number of circuits in the fleet
    original,            \* the configuration before the edit, and its
    original_hashes,     \* fingerprints
    config,              \* the configuration after the edit, and its
    config_hashes,       \* fingerprints
    change,              \* what the edit was
    \* --- two runs of register_mltables at the same time
    registrars           \* registrar -> where its run is, how it ended, and
                         \* (history) the number of versions listed when its
                         \* check ran and the version it created

standaloneVars == <<dated_assets, asset_clock, fleet_size, original,
                    original_hashes, config, config_hashes, change, registrars>>

vars == <<monitorVars, pipelineVars, promotionVars, standaloneVars>>

\* ----------------------------------------------------------------- helpers
Range(s) == {s[i] : i \in DOMAIN s}

NoDup(s) == \A i, j \in DOMAIN s : i # j => s[i] # s[j]

\* Every way to list the elements of a set once each.
Orderings(S) == {s \in [1..Cardinality(S) -> S] : Range(s) = S}

Min(a, b) == IF a < b THEN a ELSE b

\* The wall clock after d more ticks.
Advance(t, d) == Min(t + d, MaxClock)

\* --------------------------------------------------------- the job backend
\* The statuses a job can move to on its own; terminal statuses are final.
NextStatus(s) ==
    IF s = "Queued" THEN {"Running", "Failed", "Canceled"}
    ELSE IF s = "Running" THEN TerminalStatus
    ELSE {}

\* The backend moves one submitted job forward while the monitor is running.
\* The monitor takes no part in this step.
BackendStep(j) ==
    /\ pc # "done"
    /\ j \in Range(submitted_jobs)
    /\ \E s \in NextStatus(backend[j]) : backend' = [backend EXCEPT ![j] = s]
    /\ UNCHANGED <<submitted_jobs, poll_interval, max_wait_seconds, clock,
                   pc, start_time, poll_count, elapsed_seconds, pending_job_names,
                   completed, failed, timeout_jobs, to_poll,
                   slept, errored, terminal_at, terminal_before, raised_first>>
    /\ UNCHANGED <<pipelineVars, promotionVars, standaloneVars>>

\* ------------------------------------------------- monitor_training_jobs
\* Mutants of DeadlinePassed: the loop has no deadline; the deadline is
\* noticed one tick late.
DeadlineNotChecked(elapsed, max_wait) == FALSE

DeadlinePassedLate(elapsed, max_wait) == elapsed > max_wait + 1

\* Line 78: the deadline test.
DeadlinePassed(elapsed, max_wait) == elapsed > max_wait

\* Mutants of Classify: Canceled not treated as terminal; Failed taken for a
\* success.
ClassifyNoCanceled(status) ==
    IF status \in {"Completed"} THEN "completed"
    ELSE IF status \in {"Failed"} THEN "failed"
    ELSE "pending"

ClassifyFailedAsCompleted(status) ==
    IF status \in {"Completed", "Failed"} THEN "completed"
    ELSE IF status \in {"Canceled"} THEN "failed"
    ELSE "pending"

\* Lines 94 and 99: the list a reported status sends the job to.
Classify(status) ==
    IF status \in {"Completed"} THEN "completed"
    ELSE IF status \in {"Failed", "Canceled"} THEN "failed"
    ELSE "pending"

\* Mutant of Remaining: the job is appended to its list and stays pending.
RemainingKept(pending, j, list) == pending

\* Lines 97 and 102: a job moved to completed or failed leaves the working set.
Remaining(pending, j, list) ==
    IF list = "pending" THEN pending ELSE pending \ {j}

\* Mutant of OnQueryError: the handler gives up on the job.
OnQueryErrorDrop(pending, j) == pending \ {j}

\* Lines 108-109: the handler of a failed status query only prints; the
\* working set is what it was.
OnQueryError(pending, j) == pending

\* Mutant of MarkTimeout: only the first pending job is recorded.
MarkTimeoutFirst(timeouts, order) == Append(timeouts, order[1])

\* Lines 83-84: the pending jobs, in iteration order, are appended to
\* timeout_jobs.
MarkTimeout(timeouts, order) == timeouts \o order

\* Mutant of BackendAfterTimeout: the jobs still pending are canceled.
BackendAfterTimeoutCancel(b, pending) ==
    [j \in DOMAIN b |->
        IF j \in pending /\ b[j] \in NonTerminalStatus THEN "Canceled" ELSE b[j]]

\* Lines 78-86: on timeout the monitor appends and breaks; it makes no call
\* to the backend, whose jobs are what they were.
BackendAfterTimeout(b, pending) == b

\* Lines 43-47: no jobs in the file, the function returns four empty lists.
ReturnNoJobs ==
    /\ pc = "start"
    /\ submitted_jobs = <<>>
    /\ pc' = "done"
    /\ UNCHANGED <<submitted_jobs, poll_interval, max_wait_seconds, backend, clock,
                   start_time, poll_count, elapsed_seconds, pending_job_names,
                   completed, failed, timeout_jobs, to_poll,
                   slept, errored, terminal_at, terminal_before, raised_first>>
    /\ UNCHANGED <<pipelineVars, promotionVars, standaloneVars>>

\* Lines 49-71: the working set and the start of the wall-clock measurement.
\* The clock may move before the first reading of line 75.
Start ==
    /\ pc = "start"
    /\ submitted_jobs # <<>>
    /\ pending_job_names' = Range(submitted_jobs)
    /\ completed' = <<>>
    /\ failed' = <<>>
    /\ timeout_jobs' = <<>>
    /\ start_time' = clock
    /\ poll_count' = 0
    /\ \E d \in 0..MaxLatency : clock' = Advance(clock, d)
    /\ terminal_before' = (\A j \in Range(submitted_jobs) : backend[j] \in TerminalStatus)
    /\ pc' = "loop"
    /\ UNCHANGED <<submitted_jobs, poll_interval, max_wait_seconds, backend,
                   elapsed_seconds, to_poll, slept, errored, terminal_at,
                   raised_first>>
    /\ UNCHANGED <<pipelineVars, promotionVars, standaloneVars>>

\* Lines 73-86: the deadline has passed; every pending job is appended to
\* timeout_jobs (in the set's iteration order) and the loop is left.
DeadlineExit ==
    /\ pc = "loop"
    /\ pending_job_names # {}
    /\ DeadlinePassed(clock - start_time, max_wait_seconds)
    /\ poll_count' = poll_count + 1
    /\ elapsed_seconds' = clock - start_time
    /\ \E order \in Orderings(pending_job_names) :
           timeout_jobs' = MarkTimeout(timeout_jobs, order)
    /\ backend' = BackendAfterTimeout(backend, pending_job_names)
    /\ pc' = "done"
    /\ UNCHANGED <<submitted_jobs, poll_interval, max_wait_seconds, clock,
                   start_time, pending_job_names, completed, failed, to_poll,
                   slept, errored, terminal_at, terminal_before, raised_first>>
    /\ UNCHANGED <<pipelineVars, promotionVars, standaloneVars>>

\* Lines 73-78 and 89: the deadline has not passed; the for loop starts over a
\* snapshot of the working set.
BeginPoll ==
    /\ pc = "loop"
    /\ pending_job_names # {}
    /\ ~DeadlinePassed(clock - start_time, max_wait_seconds)
    /\ poll_count < MaxPolls
    /\ poll_count' = poll_count + 1
    /\ elapsed_seconds' = clock - start_time
    /\ to_poll' = pending_job_names
    /\ errored' = {}
    /\ pc' = "poll"
    /\ UNCHANGED <<submitted_jobs, poll_interval, max_wait_seconds, backend, clock,
                   start_time, pending_job_names, completed, failed, timeout_jobs,
                   slept, terminal_at, terminal_before, raised_first>>
    /\ UNCHANGED <<pipelineVars, promotionVars, standaloneVars>>

\* Lines 90-91 and 108-109: ml_client.jobs.get raises; the error is printed and
\* the for loop goes on with the next job.
QueryRaises(j) ==
    /\ pc = "poll"
    /\ j \in to_poll
    /\ to_poll' = to_poll \ {j}
    /\ errored' = errored \cup {j}
    /\ raised_first' = (raised_first \/ poll_count = 1)
    /\ pending_job_names' = OnQueryError(pending_job_names, j)
    /\ UNCHANGED <<submitted_jobs, poll_interval, max_wait_seconds, backend, clock,
                   pc, start_time, poll_count, elapsed_seconds,
                   completed, failed, timeout_jobs,
                   slept, terminal_at, terminal_before>>
    /\ UNCHANGED <<pipelineVars, promotionVars, standaloneVars>>

\* Lines 91-106: the status is read and the job is moved by it.
QueryReports(j) ==
    /\ pc = "poll"
    /\ j \in to_poll
    /\ to_poll' = to_poll \ {j}
    /\ LET list == Classify(backend[j]) IN
        /\ completed' = IF list = "completed" THEN Append(completed, j) ELSE completed
        /\ failed' = IF list = "failed" THEN Append(failed, j) ELSE failed
        /\ pending_job_names' = Remaining(pending_job_names, j, list)
        /\ terminal_at' = IF backend[j] \in TerminalStatus
                          THEN [terminal_at EXCEPT ![j] = poll_count]
                          ELSE terminal_at
    /\ UNCHANGED <<submitted_jobs, poll_interval, max_wait_seconds, backend, clock,
                   pc, start_time, poll_count, elapsed_seconds, timeout_jobs,
                   slept, errored, terminal_before, raised_first>>
    /\ UNCHANGED <<pipelineVars, promotionVars, standaloneVars>>

\* Lines 126-128: the for loop is over and nothing is pending; break.
AllFinished ==
    /\ pc = "poll"
    /\ to_poll = {}
    /\ pending_job_names = {}
    /\ pc' = "done"
    /\ UNCHANGED <<submitted_jobs, poll_interval, max_wait_seconds, backend, clock,
                   start_time, poll_count, elapsed_seconds, pending_job_names,
                   completed, failed, timeout_jobs, to_poll,
                   slept, errored, terminal_at, terminal_before, raised_first>>
    /\ UNCHANGED <<pipelineVars, promotionVars, standaloneVars>>

\* Lines 135-136: the for loop is over and jobs are pending; sleep, then back to
\* line 73.  The queries of the cycle and the sleep may take longer than
\* poll_interval.
Sleep ==
    /\ pc = "poll"
    /\ to_poll = {}
    /\ pending_job_names # {}
    /\ slept' = slept + 1
    /\ \E d \in 0..MaxLatency : clock' = Advance(clock, poll_interval + d)
    /\ pc' = "loop"
    /\ UNCHANGED <<submitted_jobs, poll_interval, max_wait_seconds, backend,
                   start_time, poll_count, elapsed_seconds, pending_job_names,
                   completed, failed, timeout_jobs, to_poll,
                   errored, terminal_at, terminal_before, raised_first>>
    /\ UNCHANGED <<pipelineVars, promotionVars, standaloneVars>>

\* Lines 89-109: the for loop takes wall-clock time, a status query being a
\* call to the backend.  The monitor does not read the clock inside the for
\* loop, so the time that passes there reaches it at the next reading of
\* line 75 only.
QueryTakesTime ==
    /\ pc = "poll"
    /\ clock < MaxClock
    /\ clock' = Advance(clock, 1)
    /\ UNCHANGED <<submitted_jobs, poll_interval, max_wait_seconds, backend,
                   pc, start_time, poll_count, elapsed_seconds, pending_job_names,
                   completed, failed, timeout_jobs, to_poll,
                   slept, errored, terminal_at, terminal_before, raised_first>>
    /\ UNCHANGED <<pipelineVars, promotionVars, standaloneVars>>

\* A step of the monitor itself.
MonitorStep ==
    \/ ReturnNoJobs
    \/ Start
    \/ DeadlineExit
    \/ BeginPoll
    \/ \E j \in JobNames : QueryRaises(j)
    \/ \E j \in JobNames : QueryReports(j)
    \/ AllFinished
    \/ Sleep

\* ================================================================ pipeline
MaxEdits == 1            \* configuration changes in one behaviour
MaxDataVersions == 2     \* versions kept per MLTable
MaxModelVersions == 2    \* versions kept per model

\* The circuits config/circuits.yaml can list, in file order.
AllUnits == <<"U1", "U2">>

\* The circuits it lists.
Units == DOMAIN circuits_yaml
UnitList == SelectSeq(AllUnits, LAMBDA u : u \in Units)

\* The values the edited fields range over.
CutoffDates == {"2024-01-01", "2024-06-01"}
HyperparameterSets == {[epochs |-> 10], [epochs |-> 20]}

\* An entry of circuits.yaml.  ids_present says whether the entry has the
\* keys plant_id and circuit_id, which the stages read with circuit[...].
DefaultEntry ==
    [ids_present |-> TRUE,
     features |-> {"f1", "f2"}, cutoff_date |-> "2024-01-01", delta_version |-> 1,
     environment_version |-> "1.0.0", hyperparameters |-> [epochs |-> 10]]

\* The entry without one of the two keys.
EntryWithoutIds == [DefaultEntry EXCEPT !.ids_present = FALSE]

\* The units the loop of a stage gets to: circuit['plant_id'] at the head of
\* the loop body raises KeyError for an entry without the key, and nothing
\* in the loop catches it (detect_changed_circuits.py lines 110-112,
\* submit_training_jobs.py lines 100-102).
Reached(u) ==
    \A i \in DOMAIN UnitList :
        (\E k \in DOMAIN UnitList : k >= i /\ UnitList[k] = u)
            => circuits_yaml[UnitList[i]].ids_present

\* Whether that loop runs to its end.
LoopCompletes == \A u \in Units : Reached(u)

\* No fingerprint: Python's None, and the empty output of a tsv query.
NoHash == <<>>

\* A fingerprint stands for the string that is hashed: md5(...)[:8] is taken
\* to tell apart the few strings of this model.  sorted(features) makes the
\* string depend on the set of features only.
\* detect_changed_circuits.py lines 133-145.
config_hash(features, cutoff_date, delta_version) ==
    <<features, cutoff_date, delta_version>>

\* The data fingerprint register_mltables computes for a unit (lines 111-145).
\* The features are read from config/circuits/<unit>.yaml, which
\* generate_circuit_configs.py copies from circuits.yaml; they are not edited
\* here, so both files agree on them.
DataHash(u) ==
    config_hash(circuits_yaml[u].features, circuits_yaml[u].cutoff_date,
                circuits_yaml[u].delta_version)

\* submit_training_jobs.py lines 35-46.
calculate_training_hash(circuit_cfg) ==
    <<circuit_cfg.features, circuit_cfg.cutoff_date, circuit_cfg.delta_version,
      circuit_cfg.environment_version, circuit_cfg.hyperparameters>>

Last(seq) == seq[Len(seq)]

\* ------------------------------------------------------------ environment
\* The configuration is edited between runs: one field of one unit changes.
EditCutoffDate(u) ==
    /\ edits_left > 0
    /\ \E d \in CutoffDates \ {circuits_yaml[u].cutoff_date} :
           circuits_yaml' = [circuits_yaml EXCEPT ![u].cutoff_date = d]
    /\ edits_left' = edits_left - 1
    /\ prev_data_hash' = [prev_data_hash EXCEPT ![u] = NoHash]
    /\ prev_submit_hash' = [prev_submit_hash EXCEPT ![u] = NoHash]
    /\ UNCHANGED <<data_assets, models, jobs, registered_circuits, training_jobs>>
    /\ UNCHANGED <<monitorVars, promotionVars, standaloneVars>>

EditHyperparameters(u) ==
    /\ edits_left > 0
    /\ \E h \in HyperparameterSets \ {circuits_yaml[u].hyperparameters} :
           circuits_yaml' = [circuits_yaml EXCEPT ![u].hyperparameters = h]
    /\ edits_left' = edits_left - 1
    /\ UNCHANGED <<data_assets, models, jobs, registered_circuits, training_jobs,
                   prev_data_hash, prev_submit_hash>>
    /\ UNCHANGED <<monitorVars, promotionVars, standaloneVars>>

\* A running training job ends.  (Canceled is to every stage below what Failed
\* is: not Completed.)
JobStep(name) ==
    /\ \E j \in jobs :
        /\ j.name = name
        /\ j.status = "Running"
        /\ \E s \in {"Completed", "Failed"} :
               jobs' = (jobs \ {j}) \cup {[j EXCEPT !.status = s]}
    /\ UNCHANGED <<circuits_yaml, edits_left, data_assets, models,
                   registered_circuits, training_jobs, prev_data_hash,
                   prev_submit_hash>>
    /\ UNCHANGED <<monitorVars, promotionVars, standaloneVars>>

\* ------------------------------- detect_changed_circuits.register_mltables
\* What a run meets for one unit: whether config/circuits/<unit>.yaml exists,
\* whether `az ml data list` answers, whether mltables/<unit>/MLTable exists,
\* whether `az ml data create` is accepted.  A step the loop does not reach
\* is left at TRUE.
RegisterOutcomes ==
    {o \in [cfg_file : BOOLEAN, query_ok : BOOLEAN, mltable_file : BOOLEAN,
            create_ok : BOOLEAN] :
        /\ ~o.cfg_file => (o.query_ok /\ o.mltable_file)
        /\ ~o.mltable_file => o.create_ok}

HasVersion(u, h) ==
    \E i \in DOMAIN data_assets[u] : data_assets[u][i].config_hash = h

\* Lines 169-180: the version found by the check, if the query answered and
\* its answer parsed to a non-empty list.
ExistingFound(u, h, query_ok) == query_ok /\ HasVersion(u, h)

\* Lines 110-180: the first half of an iteration, up to the answer of the
\* check; "create" when the iteration goes on to the creation.
CheckEnd(u, o) ==
    IF ~o.cfg_file THEN "failed"                              \* lines 123-126
    ELSE IF ExistingFound(u, DataHash(u), o.query_ok)
         THEN "skipped"                                       \* lines 171-178
    ELSE "create"

\* Lines 182-243: the second half, the creation.
CreateEnd(o) ==
    IF ~o.mltable_file THEN "failed"                          \* lines 185-188
    ELSE IF ~o.create_ok THEN "failed"                        \* lines 220-225
    ELSE "registered"                                         \* lines 228-243

\* Lines 110-243: one iteration of the loop; how it ends for the unit.
RegisterUnit(u, o) ==
    IF CheckEnd(u, o) # "create" THEN CheckEnd(u, o) ELSE CreateEnd(o)

\* Lines 237-255: what the run hands to main.  A failed unit sets the flag
\* of lines 125, 187 and 224, and the run raises after the loop instead of
\* returning the list of the units it registered.
RegisterResult(end) ==
    IF ~LoopCompletes \/ \E u \in Units : end[u] = "failed"
    THEN [raised |-> TRUE, changed_circuits |-> <<>>]         \* lines 252-253
    ELSE [raised |-> FALSE,
          changed_circuits |->
              SelectSeq(UnitList, LAMBDA u : end[u] = "registered")]  \* line 255

\* Lines 85-255: a run of register_mltables over all circuits, meeting outs.
RegisterRun(outs) ==
    LET end == [u \in Units |->
                   IF Reached(u) THEN RegisterUnit(u, outs[u]) ELSE "unreached"]
    IN
    /\ \A u \in Units :
           end[u] = "registered" => Len(data_assets[u]) < MaxDataVersions
    /\ data_assets' =
           [u \in Units |->
               IF end[u] = "registered"
               THEN Append(data_assets[u], [config_hash |-> DataHash(u)])
               ELSE data_assets[u]]
    /\ prev_data_hash' =
           [u \in Units |->
               IF end[u] \in {"registered", "skipped"} THEN DataHash(u)
               ELSE NoHash]
    /\ registered_circuits' = RegisterResult(end)
    /\ UNCHANGED <<circuits_yaml, edits_left, models, jobs, training_jobs,
                   prev_submit_hash>>
    /\ UNCHANGED <<monitorVars, promotionVars, standaloneVars>>

register_mltables == \E outs \in [Units -> RegisterOutcomes] : RegisterRun(outs)

\* ------------------------------------- register_mltables, two at a time
\* Two runs of register_mltables on the same checkout: the same unit, the
\* same name and the same fingerprint.  The workspace serves one call at a
\* time, so a run is two steps, its check (`az ml data list`, line 169) and
\* its creation (`az ml data create`, line 220), and the steps of the two
\* runs interleave freely.
Registrars == {1, 2}

RaceUnit == AllUnits[1]

\* A run before its check.
NotStarted == [pc |-> "check", end |-> "none", seen |-> 0, created |-> 0]

\* Lines 110-180: the check of registrar r, meeting o.
RaceCheck(r, o) ==
    LET end == CheckEnd(RaceUnit, o) IN
    /\ registrars[r].pc = "check"
    /\ registrars' =
           [registrars EXCEPT ![r] =
               [pc |-> IF end = "create" THEN "create" ELSE "done",
                end |-> IF end = "create" THEN "none" ELSE end,
                seen |-> Len(data_assets[RaceUnit]),
                created |-> 0]]
    /\ UNCHANGED <<dated_assets, asset_clock, fleet_size, original, original_hashes,
                   config, config_hashes, change>>
    /\ UNCHANGED <<monitorVars, pipelineVars, promotionVars>>

\* Lines 182-243: the creation of registrar r, meeting o.  The workspace
\* numbers the new version (no --version is passed, lines 207-213).
RaceCreate(r, o) ==
    LET end == CreateEnd(o) IN
    /\ registrars[r].pc = "create"
    /\ data_assets' =
           IF end = "registered"
           THEN [data_assets EXCEPT
                    ![RaceUnit] = Append(@, [config_hash |-> DataHash(RaceUnit)])]
           ELSE data_assets
    /\ registrars' =
           [registrars EXCEPT ![r] =
               [pc |-> "done", end |-> end, seen |-> @.seen,
                created |-> IF end = "registered"
                            THEN Len(data_assets[RaceUnit]) + 1 ELSE 0]]
    /\ UNCHANGED <<circuits_yaml, edits_left, models, jobs, registered_circuits,
                   training_jobs, prev_data_hash, prev_submit_hash>>
    /\ UNCHANGED <<dated_assets, asset_clock, fleet_size, original, original_hashes,
                   config, config_hashes, change>>
    /\ UNCHANGED <<monitorVars, promotionVars>>

\* ---------------------------------------------------- submit_training_jobs
\* What a run meets for one unit: whether `az ml model list` answers, whether
\* `az ml data list` answers, whether `az ml job create` is accepted when the
\* job name is free.
SubmitOutcomes ==
    {o \in [model_query_ok : BOOLEAN, data_query_ok : BOOLEAN, create_ok : BOOLEAN] :
        ~o.data_query_ok => o.create_ok}

\* Lines 49-77: the training_hash tag of the first model the list query
\* returns, the model registered last; None when the query fails or is empty.
get_last_model_training_hash(u, query_ok) ==
    IF query_ok /\ models[u] # <<>> THEN Last(models[u]).training_hash
    ELSE NoHash

\* Lines 118-138: the decision of determine_circuits_to_train.
NeedsTraining(current_hash, last_hash) ==
    IF last_hash # NoHash THEN current_hash # last_hash ELSE TRUE

\* Lines 243-244: the job name.
JobName(u, cutoff_date, mltable_version) == <<u, cutoff_date, mltable_version>>

JobNamesInUse == {j.name : j \in jobs}

\* Lines 266-287: the backend creates the job unless the call fails or a job
\* of that name exists.
JobCreated(name, create_ok) == create_ok /\ name \notin JobNamesInUse

\* Lines 100-138: whether determine_circuits_to_train lists the unit.
Selected(u, model_query_ok) ==
    NeedsTraining(calculate_training_hash(circuits_yaml[u]),
                  get_last_model_training_hash(u, model_query_ok))

\* Lines 209-235: the version the job is given, `[0].version` of
\* `az ml data list --name <unit>`: the version registered last, whatever its
\* tags.
LatestVersion(u) == Len(data_assets[u])

\* Lines 100-138 and 177-287: how a run ends for the unit.
SubmitUnit(u, o) ==
    IF ~Selected(u, o.model_query_ok) THEN "skip"
    ELSE IF ~o.data_query_ok \/ data_assets[u] = <<>>
         THEN "MLTable not found"                             \* lines 226-233
    ELSE IF JobCreated(JobName(u, circuits_yaml[u].cutoff_date,
                               LatestVersion(u)), o.create_ok)
         THEN "submitted"                                     \* lines 268-280
         ELSE "rejected"                                      \* lines 281-287

\* Lines 270-279: the entry of submitted_jobs, and the job the backend holds.
JobInfo(u) ==
    [job_name |-> JobName(u, circuits_yaml[u].cutoff_date, LatestVersion(u)),
     unit |-> u,
     training_hash |-> calculate_training_hash(circuits_yaml[u])]

NewJob(u) ==
    [name |-> JobInfo(u).job_name, unit |-> u,
     training_hash |-> JobInfo(u).training_hash, status |-> "Running"]

\* Lines 226-233 and 281-287: the ends that append the unit to
\* failed_submissions.
RecordedFailedLookupOnly(end) == end = "MLTable not found"

RecordedFailed(end) == end \in {"MLTable not found", "rejected"}

\* Lines 150-298: a run of submit_training_jobs, meeting outs.
SubmitRun(outs) ==
    LET end == [u \in Units |->
                   IF LoopCompletes THEN SubmitUnit(u, outs[u]) ELSE "unreached"]
        accepted == SelectSeq(UnitList, LAMBDA u : end[u] = "submitted")
        refused == SelectSeq(UnitList, LAMBDA u : RecordedFailed(end[u]))
    IN
    /\ jobs' = jobs \cup {NewJob(u) : u \in Range(accepted)}
    /\ training_jobs' =
           IF LoopCompletes
           THEN [submitted_jobs |-> [i \in 1..Len(accepted) |-> JobInfo(accepted[i])],
                 failed_submissions |->
                     [i \in 1..Len(refused) |->
                         [unit |-> refused[i], error |-> end[refused[i]]]]]
           ELSE training_jobs                                 \* lines 345-347
    /\ prev_submit_hash' =
           [u \in Units |->
               IF end[u] \in {"skip", "submitted"} /\ prev_data_hash[u] = DataHash(u)
               THEN DataHash(u)
               ELSE NoHash]
    /\ UNCHANGED <<circuits_yaml, edits_left, data_assets, models,
                   registered_circuits, prev_data_hash>>
    /\ UNCHANGED <<monitorVars, promotionVars, standaloneVars>>

submit_training_jobs == \E outs \in [Units -> SubmitOutcomes] : SubmitRun(outs)

\* Lines 162-165: the circuits the last run of determine_circuits_to_train
\* returned; each of them is in one of the two lists of the run's result.
CircuitsToTrain(result) ==
    {result.submitted_jobs[i].unit : i \in DOMAIN result.submitted_jobs}
    \cup {result.failed_submissions[i].unit : i \in DOMAIN result.failed_submissions}

\* --------------------------------------------------------- register_models
\* What a run meets for one job: whether ml_client.jobs.get answers, whether
\* ml_client.models.create_or_update is accepted.
ModelOutcomes ==
    {o \in [get_ok : BOOLEAN, create_ok : BOOLEAN] : ~o.get_ok => o.create_ok}

JobStatus(name) == (CHOOSE j \in jobs : j.name = name).status

\* Mutant of RegisterModel: the status of the job is not looked at.
RegisterModelAnyStatus(job_info, o) ==
    IF ~o.get_ok THEN "failed"
    ELSE IF ~o.create_ok THEN "failed"
    ELSE "registered"

\* Lines 56-119: one iteration of the loop; how it ends for the job.
RegisterModel(job_info, o) ==
    IF ~o.get_ok THEN "failed"                                \* lines 72, 117-119
    ELSE IF JobStatus(job_info.job_name) # "Completed"
         THEN "failed"                                        \* lines 74-77
    ELSE IF ~o.create_ok THEN "failed"                        \* lines 100, 117-119
    ELSE "registered"                                         \* lines 100-115

\* Lines 86-98: the tags of the model registered from a job.  The hash is
\* the one the jobs file carries (line 62), not one computed from the
\* configuration as it is now.
ModelTagsRecomputed(job_info) ==
    [training_hash |-> calculate_training_hash(circuits_yaml[job_info.unit]),
     training_job |-> job_info.job_name]

ModelTags(job_info) ==
    [training_hash |-> job_info.training_hash,
     training_job |-> job_info.job_name]

\* Lines 107-115: the entry of the result for a model just registered; the
\* registry numbers the versions of a model from 1.
RegisteredEntry(job_info) ==
    [unit |-> job_info.unit, version |-> Len(models[job_info.unit]) + 1,
     training_hash |-> ModelTags(job_info).training_hash,
     training_job |-> job_info.job_name]

\* Lines 24-127: a run of register_models over the jobs file, meeting outs.
\* The file of one submission run holds at most one job per unit.
RegisterModelsRun(outs) ==
    LET infos == training_jobs.submitted_jobs
        done == {i \in DOMAIN infos :
                    RegisterModel(infos[i], outs[infos[i].unit]) = "registered"}
        registered == SelectSeq([i \in DOMAIN infos |-> i], LAMBDA i : i \in done)
        unregistered == SelectSeq([i \in DOMAIN infos |-> i], LAMBDA i : i \notin done)
    IN
    /\ infos # <<>>
    /\ \A i \in done : Len(models[infos[i].unit]) < MaxModelVersions
    /\ models' =
           [u \in Units |->
               IF \E i \in done : infos[i].unit = u
               THEN LET i == CHOOSE k \in done : infos[k].unit = u IN
                    Append(models[u], ModelTags(infos[i]))
               ELSE models[u]]
    /\ registered_models' =
           [models |-> [n \in DOMAIN registered |-> RegisteredEntry(infos[registered[n]])],
            failed |-> [n \in DOMAIN unregistered |-> infos[unregistered[n]].unit]]
    /\ UNCHANGED <<circuits_yaml, edits_left, data_assets, jobs,
                   registered_circuits, training_jobs, prev_data_hash,
                   prev_submit_hash>>
    /\ UNCHANGED <<approval_file_exists, approvals, registry, passes,
                   promotion_result, statuses_met, unverified>>
    /\ UNCHANGED <<monitorVars, standaloneVars>>

register_models == \E outs \in [Units -> ModelOutcomes] : RegisterModelsRun(outs)

\* ------------------------------------------------------------ exit status
\* submit_training_jobs.py lines 326-347: main returns 0 on either branch
\* when the run did not raise.
submit_main(result) ==
    IF result.submitted_jobs # <<>> THEN 0 ELSE 0

\* register_models.py lines 162-184: main returns 1 when no model was
\* registered.
register_models_main(result) ==
    IF result.models = <<>> THEN 1 ELSE 0

\* monitor_training_jobs.py lines 200-235: main returns 0 when any job
\* completed, 1 when none did and some failed or timed out.
monitor_main(result) ==
    IF result.completed # <<>> THEN 0
    ELSE IF result.failed # <<>> \/ result.timeout # <<>> THEN 1
    ELSE 0

\* ------------------------------------------- register_mltable.py (by hand)
MaxRegistrations == 2    \* runs of register_mltable in one behaviour

\* --version: a date, today's by default (lines 100-103).
VersionLabels == {"2024-01-01", "2024-01-02"}

DeltaVersions == {1, 2}

\* No asset under a version label.
NoAsset == [exists |-> FALSE]

\* Lines 57-67: the tags; registered_at is the time of the call.
MltableTags(delta_version, now) ==
    [exists |-> TRUE, delta_version |-> delta_version, registered_at |-> now]

\* Lines 69-93: ml_client.data.create_or_update with an explicit version.
\* The workspace creates the version when the label is free and otherwise
\* updates the asset under it in place; accepted is whether the call goes
\* through.
register_mltable(version, delta_version, accepted) ==
    /\ asset_clock < MaxRegistrations
    /\ asset_clock' = asset_clock + 1
    /\ dated_assets' =
           IF accepted
           THEN [dated_assets EXCEPT ![version] = MltableTags(delta_version, asset_clock)]
           ELSE dated_assets
    /\ UNCHANGED <<fleet_size, original, original_hashes, config, config_hashes,
                   change, registrars>>
    /\ UNCHANGED <<monitorVars, pipelineVars, promotionVars>>

\* ====================================================== the hash functions
\* A configuration value as yaml.safe_load gives it: an int, a str, a list of
\* str or a dict of scalars.  A dict is the sequence of its (key, value)
\* pairs in insertion order, which Python keeps.
IntValue(text) == [kind |-> "int", text |-> text, items |-> <<>>, pairs |-> <<>>]
StrValue(text) == [kind |-> "str", text |-> text, items |-> <<>>, pairs |-> <<>>]
ListValue(items) == [kind |-> "list", text |-> "", items |-> items, pairs |-> <<>>]
DictValue(pairs) == [kind |-> "dict", text |-> "", items |-> <<>>, pairs |-> pairs]

\* dict.get(key, default) and `key in dict`.
Has(pairs, key) == \E i \in DOMAIN pairs : pairs[i][1] = key

Get(pairs, key, default) ==
    IF Has(pairs, key)
    THEN pairs[CHOOSE i \in DOMAIN pairs : pairs[i][1] = key][2]
    ELSE default

\* The names of the model in the order Python's sorted() puts them.
SortedNames ==
    <<"a", "b", "c", "cutoff_date", "delta_version", "description",
      "environment_version", "epochs", "features", "hyperparameters", "lr",
      "metadata">>

Rank(name) == CHOOSE i \in DOMAIN SortedNames : SortedNames[i] = name

\* sorted(features), and sorted(dict.items()) for a dict, whose keys differ.
SortedList(items) == SortSeq(items, LAMBDA x, y : Rank(x) < Rank(y))

SortedItems(pairs) == SortSeq(pairs, LAMBDA p, q : Rank(p[1]) < Rank(q[1]))

\* A string is the sequence of its pieces; sep.join(parts).
RECURSIVE Join(_, _)
Join(parts, sep) ==
    IF parts = <<>> THEN <<>>
    ELSE IF Len(parts) = 1 THEN parts[1]
    ELSE parts[1] \o <<sep>> \o Join(Tail(parts), sep)

\* f"{v}" of a scalar: an int and the str of the same digits format alike.
Format(v) == <<v.text>>

\* hashlib.md5(s.encode()).hexdigest()[:n].  The digest is taken to tell
\* apart the strings of this model; n is the number of characters kept.
Digest(string, n) == [of |-> string, length |-> n]

\* detect_changed_circuits.py lines 131-145: the string hashed for the data
\* fingerprint.  The features are those of config/circuits/<unit>.yaml, the
\* other two fields those of the entry of circuits.yaml (lines 113-114).
ConfigStr(features, cutoff_date, delta_version) ==
    Join([i \in DOMAIN SortedList(features.items) |-> <<SortedList(features.items)[i]>>], ",")
        \o <<"|">> \o Format(cutoff_date) \o <<"|">> \o Format(delta_version)

DataFingerprint(cfg) ==
    Digest(ConfigStr(Get(cfg.unit_file, "features", ListValue(<<>>)),
                     Get(cfg.entry, "cutoff_date", StrValue("")),
                     Get(cfg.entry, "delta_version", StrValue("None"))), 8)

\* submit_training_jobs.py lines 35-46: the string hashed for the training
\* fingerprint, every field from the entry of circuits.yaml.
HashStr(circuit_cfg) ==
    LET features == Get(circuit_cfg, "features", ListValue(<<>>))
        hyperparams == SortedItems(Get(circuit_cfg, "hyperparameters", DictValue(<<>>)).pairs)
    IN
    Join([i \in DOMAIN SortedList(features.items) |-> <<SortedList(features.items)[i]>>], ",")
        \o <<"|">> \o Format(Get(circuit_cfg, "cutoff_date", StrValue("")))
        \o <<"|">> \o Format(Get(circuit_cfg, "delta_version", IntValue("0")))
        \o <<"|">> \o Format(Get(circuit_cfg, "environment_version", StrValue("1.0.0")))
        \o <<"|">>
        \o Join([i \in DOMAIN hyperparams |->
                    <<hyperparams[i][1], "=">> \o Format(hyperparams[i][2])], ",")

TrainingFingerprint(cfg) == Digest(HashStr(cfg.entry), 8)

\* The texts yaml.dump puts in quotes when they are the value of a str,
\* because they would load as numbers.
NumberTexts == {"1", "2", "10", "20"}

YamlScalar(v) ==
    IF v.kind = "str" /\ v.text \in NumberTexts THEN <<"'", v.text, "'">>
    ELSE <<v.text>>

\* yaml.dump(d, sort_keys=True, default_flow_style=False): the keys of every
\* dict in sorted order, the items of a list in the order of the list.
YamlDump(pairs) ==
    LET sorted == SortedItems(pairs)
        Line(p) ==
            IF p[2].kind = "list"
            THEN <<p[1], ":", "\n">>
                 \o Join([i \in DOMAIN p[2].items |-> <<"- ", p[2].items[i], "\n">>], "")
            ELSE IF p[2].kind = "dict"
            THEN <<p[1], ":", "\n">>
                 \o Join([i \in DOMAIN SortedItems(p[2].pairs) |->
                             <<"  ", SortedItems(p[2].pairs)[i][1], ": ">>
                             \o YamlScalar(SortedItems(p[2].pairs)[i][2]) \o <<"\n">>], "")
            ELSE <<p[1], ": ">> \o YamlScalar(p[2]) \o <<"\n">>
    IN Join([i \in DOMAIN sorted |-> Line(sorted[i])], "")

\* Mutant of WithoutMetadata: the metadata block is hashed with the rest.
WithMetadata(pairs) == pairs

\* generate_circuit_configs.py line 34: the dict without its metadata key.
WithoutMetadata(pairs) == SelectSeq(pairs, LAMBDA p : p[1] # "metadata")

\* generate_circuit_configs.py lines 20-41.
generate_config_hash(config_dict) ==
    Digest(YamlDump(WithoutMetadata(config_dict)), 12)

\* The three fingerprints of a configuration.
Fingerprints(cfg) ==
    [data |-> DataFingerprint(cfg),
     training |-> TrainingFingerprint(cfg),
     config |-> generate_config_hash(cfg.entry)]

\* ------------------------------------------------ configurations and edits
\* The values the fields of an entry of circuits.yaml range over.
FeatureLists == {<<"a">>, <<"a", "b">>, <<"b", "a">>, <<"a", "c">>}

FieldValues ==
    [cutoff_date |-> {StrValue("2024-01-01"), StrValue("2024-06-01")},
     delta_version |-> {IntValue("1"), IntValue("2")},
     environment_version |-> {StrValue("1.0.0"), StrValue("1.1.0")}]

\* epochs: 10, epochs: 20 and epochs: "10".
HyperparameterValues == {IntValue("10"), IntValue("20"), StrValue("10")}

HyperparameterDicts ==
    {<<<<"epochs", v>>>> : v \in HyperparameterValues}
    \cup {<<<<"epochs", IntValue("10")>>, <<"lr", IntValue("1")>>>>}

MetadataBlocks ==
    {DictValue(<<<<"description", StrValue(t)>>>>) : t \in {"generated", "edited"}}

Descriptions == {StrValue("north line"), StrValue("south line")}

\* generate_circuit_configs.py lines 70-88: config/circuits/<unit>.yaml is
\* the entry with a metadata block set.
SetKey(pairs, key, value) ==
    IF Has(pairs, key)
    THEN [i \in DOMAIN pairs |-> IF pairs[i][1] = key THEN <<key, value>> ELSE pairs[i]]
    ELSE Append(pairs, <<key, value>>)

Generated(entry) ==
    SetKey(entry, "metadata", DictValue(<<<<"description", StrValue("generated")>>>>))

\* The entry and the file generated from it.
Regenerated(entry) == [entry |-> entry, unit_file |-> Generated(entry)]

\* The configurations a behaviour starts from: the fields in the order they
\* are usually written, the per-unit file freshly generated.
Configs ==
    {Regenerated(<<<<"features", ListValue(f)>>,
                   <<"cutoff_date", c>>,
                   <<"delta_version", d>>,
                   <<"environment_version", e>>,
                   <<"hyperparameters", DictValue(h)>>>>) :
        f \in FeatureLists \ {<<"a", "c">>},
        c \in FieldValues.cutoff_date,
        d \in FieldValues.delta_version,
        e \in FieldValues.environment_version,
        h \in HyperparameterDicts}

\* The sizes of fleet the fingerprints are meant for.
FleetSizes == {100, 1000, 3000}

Swap(seq, i, j) ==
    [n \in DOMAIN seq |-> IF n = i THEN seq[j] ELSE IF n = j THEN seq[i] ELSE seq[n]]

\* One edit of the configuration; the fingerprints are computed again.
Edit(kind, new) ==
    /\ change = "none"
    /\ new # config
    /\ config' = new
    /\ config_hashes' = Fingerprints(new)
    /\ change' = kind
    /\ UNCHANGED <<dated_assets, asset_clock, fleet_size, original, original_hashes,
                   registrars>>
    /\ UNCHANGED <<monitorVars, pipelineVars, promotionVars>>

\* Two keys of the entry change places.
PermuteKeys(i, j) ==
    /\ i \in DOMAIN config.entry /\ j \in DOMAIN config.entry /\ i < j
    /\ Edit("permute_keys", Regenerated(Swap(config.entry, i, j)))

\* Two keys of the hyperparameters change places.
PermuteHyperparameters ==
    LET h == Get(config.entry, "hyperparameters", DictValue(<<>>)).pairs IN
    /\ Len(h) >= 2
    /\ Edit("permute_hyperparameters",
            Regenerated(SetKey(config.entry, "hyperparameters",
                               DictValue(Swap(h, 1, 2)))))

\* Two features change places in the list.
ReorderFeatures ==
    LET f == Get(config.entry, "features", ListValue(<<>>)).items IN
    /\ Len(f) >= 2
    /\ Edit("reorder_features",
            Regenerated(SetKey(config.entry, "features", ListValue(Swap(f, 1, 2)))))

\* A metadata block is written into the entry.
SetMetadata(m) ==
    Edit("metadata", Regenerated(SetKey(config.entry, "metadata", m)))

\* A field that no stage reads is written into the entry.
SetDescription(d) ==
    Edit("unrelated_field", Regenerated(SetKey(config.entry, "description", d)))

\* cutoff_date, delta_version or environment_version gets another value.
ChangeField(key, v) ==
    /\ v # Get(config.entry, key, v)
    /\ Edit(key, Regenerated(SetKey(config.entry, key, v)))

\* A hyperparameter gets another value.
ChangeHyperparameter(k, v) ==
    LET h == Get(config.entry, "hyperparameters", DictValue(<<>>)).pairs IN
    /\ Has(h, k)
    /\ v # Get(h, k, v)
    /\ Edit("hyperparameters",
            Regenerated(SetKey(config.entry, "hyperparameters",
                               DictValue(SetKey(h, k, v)))))

\* A feature is added, removed or renamed.
ChangeFeatures(f) ==
    /\ Range(f) # Range(Get(config.entry, "features", ListValue(<<>>)).items)
    /\ Edit("features", Regenerated(SetKey(config.entry, "features", ListValue(f))))

\* The features of config/circuits/<unit>.yaml are edited and circuits.yaml
\* is not.
EditUnitFile(f) ==
    /\ Range(f) # Range(Get(config.unit_file, "features", ListValue(<<>>)).items)
    /\ Edit("unit_file_features",
            [config EXCEPT !.unit_file = SetKey(config.unit_file, "features", ListValue(f))])

\* ------------------------------------------------------ collision estimate
\* Natural numbers of any size: the digits to the base Base, lowest first.
Base == 10000

RECURSIVE Digits(_)
Digits(n) == IF n = 0 THEN <<>> ELSE <<n % Base>> \o Digits(n \div Base)

\* x * k + carry, for k up to Base.
RECURSIVE Times(_, _, _)
Times(x, k, carry) ==
    IF x = <<>> THEN Digits(carry)
    ELSE LET p == Head(x) * k + carry IN
         <<p % Base>> \o Times(Tail(x), k, p \div Base)

RECURSIVE Below(_, _)
Below(x, y) ==
    IF Len(x) # Len(y) THEN Len(x) < Len(y)
    ELSE IF x = <<>> THEN FALSE
    ELSE IF Last(x) # Last(y) THEN Last(x) < Last(y)
    ELSE Below(SubSeq(x, 1, Len(x) - 1), SubSeq(y, 1, Len(y) - 1))

\* 2 * 16^length.
RECURSIVE TwiceHashSpace(_)
TwiceHashSpace(length) ==
    IF length = 0 THEN Digits(2) ELSE Times(TwiceHashSpace(length - 1), 16, 0)

\* tests/test_config_hash.py lines 185-211: n^2 / (2 * 16^length) < 1e-9,
\* that is n^2 * 10^9 < 2 * 16^length.
CollisionBelowBillionth(n, length) ==
    Below(Times(Times(Times(Digits(n * n), 1000, 0), 1000, 0), 1000, 0),
          TwiceHashSpace(length))

\* =============================================================== promotion
MaxPasses == 2           \* promotion passes in one behaviour

\* The circuits whose models stand for promotion.
PromotionUnits == <<"U1", "U2">>

\* What an entry of approval_status.json can say; "absent" is no entry.
ApprovalStatus == {"absent", "pending", "approved", "rejected"}

\* An entry of registered_models.json, as register_models writes it
\* (register_models.py lines 107-115): the first version of a circuit's model.
Candidate(u) ==
    [unit |-> u, version |-> 1,
     training_hash |-> calculate_training_hash(DefaultEntry),
     training_job |-> JobName(u, DefaultEntry.cutoff_date, 1)]

\* promote_models_individually.py line 45: plant_id:model_name:version.
ModelKey(model) == <<model.unit, model.version>>

ApprovalKeys == {ModelKey(Candidate(u)) : u \in Range(PromotionUnits)}

\* Lines 26-60: approved only by an "approved" entry when the file is there;
\* approved without asking when it is not.
check_approval_statusAbsentApproves(model) ==
    IF approval_file_exists
    THEN approvals[ModelKey(model)] \in {"approved", "absent"}
    ELSE TRUE

check_approval_status(model) ==
    IF approval_file_exists
    THEN approvals[ModelKey(model)] = "approved"              \* lines 41-56
    ELSE TRUE                                                 \* lines 58-60

\* The approval file is edited: one entry changes.
SetApproval(k) ==
    /\ approval_file_exists
    /\ \E st \in ApprovalStatus \ {approvals[k]} :
           approvals' = [approvals EXCEPT ![k] = st]
    /\ UNCHANGED <<registered_models, approval_file_exists, registry,
                   passes, promotion_result, statuses_met, unverified>>
    /\ UNCHANGED <<monitorVars, pipelineVars, standaloneVars>>

\* What a pass meets for one model: whether processing it raises, whether
\* `az ml model show` answers, whether `az ml model create` is accepted when
\* the version is not in the registry, whether the `az ml model show` made
\* again after the copy answers.  A step not reached is left at TRUE.
PromoteOutcomes ==
    {o \in [raises : BOOLEAN, show_ok : BOOLEAN, create_ok : BOOLEAN,
            verify_ok : BOOLEAN] :
        /\ o.raises => (o.show_ok /\ o.create_ok)
        /\ ~o.create_ok => o.verify_ok}

RegistryKeys(reg) == {ModelKey(copy) : copy \in reg}

\* Lines 96-107: `az ml model show` returns 0.
InRegistry(model, show_ok) == show_ok /\ ModelKey(model) \in RegistryKeys(registry)

\* Lines 119-137: the registry takes the copy unless the call fails or the
\* version is there already.
Copied(model, create_ok) == create_ok /\ ModelKey(model) \notin RegistryKeys(registry)

\* Lines 127-131: the copy and its tags.
RegistryCopy(model) ==
    [unit |-> model.unit, version |-> model.version,
     training_hash |-> model.training_hash]

\* Lines 141-145 (promote_to_registry.py lines 106-110): the re-query after
\* the copy returns 0 when the call answers and the version is there.
Verified(model, reg, verify_ok) == verify_ok /\ ModelKey(model) \in RegistryKeys(reg)

\* Lines 137-153 (promote_to_registry.py lines 102-117): the status reported
\* after a copy the registry accepted.  The result of the re-query is
\* printed and nothing else: the status is "promoted" either way.
AfterCopy(verified) == IF verified THEN "promoted" ELSE "promoted"

\* promote_models_individually.py lines 63-162 and 203-229: how the pass ends
\* for one model.
promote_model(model, o) ==
    IF o.raises THEN "error"                                  \* lines 223-229
    ELSE IF ~check_approval_status(model) THEN "pending_approval"  \* lines 88-94
    ELSE IF InRegistry(model, o.show_ok) THEN "already_exists"     \* lines 107-114
    ELSE IF Copied(model, o.create_ok)                        \* lines 137-153
         THEN AfterCopy(Verified(model, registry \cup {RegistryCopy(model)},
                                 o.verify_ok))
    ELSE "failed"                                             \* lines 154-162

\* promote_to_registry.py lines 51-124: the same without the approval check
\* and without a handler around the loop body.
promote_ungated(model, o) ==
    IF InRegistry(model, o.show_ok) THEN "already_exists"     \* lines 72-79
    ELSE IF Copied(model, o.create_ok)                        \* lines 102-117
         THEN AfterCopy(Verified(model, registry \cup {RegistryCopy(model)},
                                 o.verify_ok))
    ELSE "failed"                                             \* lines 118-124

\* An entry of a result list.  (The entry the handler of line 223 writes
\* carries the model name and the status "error" only.)
Outcome(model, status) ==
    [unit |-> model.unit, version |-> model.version, status |-> status]

\* The entries of the file that ended in one of the statuses, in file order.
OutcomesIn(end, statuses) ==
    LET hit == SelectSeq([i \in DOMAIN registered_models.models |-> i],
                         LAMBDA i : end[i] \in statuses)
    IN [n \in DOMAIN hit |-> Outcome(registered_models.models[hit[n]], end[hit[n]])]

\* promote_models_individually.py lines 196-246: the four lists of a pass.
\* The else branch of line 220 and the handler of line 223 both append to
\* failed.
MisfiledLists(end) ==
    [promoted |-> OutcomesIn(end, {"promoted", "already_exists"}),
     already_exists |-> OutcomesIn(end, {"already_exists"}),
     pending_approval |-> OutcomesIn(end, {"pending_approval"}),
     failed |-> OutcomesIn(end, {"failed", "error"})]

ResultLists(end) ==
    [promoted |-> OutcomesIn(end, {"promoted"}),
     already_exists |-> OutcomesIn(end, {"already_exists"}),
     pending_approval |-> OutcomesIn(end, {"pending_approval"}),
     failed |-> OutcomesIn(end, {"failed", "error"})]

\* Lines 141-145 (promote_to_registry.py lines 106-110): the models of a pass
\* whose copy was accepted and whose re-query did not return 0.
Unverified(end, outs, reg) ==
    {ModelKey(registered_models.models[i]) :
        i \in {k \in DOMAIN registered_models.models :
                  /\ Copied(registered_models.models[k], outs[k].create_ok)
                  /\ end[k] \notin {"error", "pending_approval", "already_exists"}
                  /\ ~Verified(registered_models.models[k], reg, outs[k].verify_ok)}}

\* promote_models_individually.py lines 165-263: a pass over the file,
\* meeting outs.
PromotePass(outs) ==
    LET end == [i \in DOMAIN registered_models.models |->
                   promote_model(registered_models.models[i], outs[i])]
    IN
    /\ registered_models.models # <<>>
    /\ passes < MaxPasses
    /\ passes' = passes + 1
    /\ registry' = registry \cup
           {RegistryCopy(registered_models.models[i]) :
               i \in {k \in DOMAIN registered_models.models : end[k] = "promoted"}}
    /\ promotion_result' = ResultLists(end)
    /\ unverified' = Unverified(end, outs, registry')
    /\ statuses_met' =
           [k \in ApprovalKeys |->
               IF /\ approval_file_exists
                  /\ \E i \in DOMAIN registered_models.models :
                         ModelKey(registered_models.models[i]) = k /\ ~outs[i].raises
               THEN statuses_met[k] \cup ({approvals[k]} \cap {"absent", "rejected"})
               ELSE statuses_met[k]]
    /\ UNCHANGED <<registered_models, approval_file_exists, approvals>>
    /\ UNCHANGED <<monitorVars, pipelineVars, standaloneVars>>

promote_models_individually ==
    \E outs \in [DOMAIN registered_models.models -> PromoteOutcomes] : PromotePass(outs)

\* promote_to_registry.py lines 23-133: a pass over the file, meeting outs.
\* Models found in the registry are listed under promoted, with the status
\* already_exists (lines 74-78).
UngatedPass(outs) ==
    LET end == [i \in DOMAIN registered_models.models |->
                   promote_ungated(registered_models.models[i], outs[i])]
    IN
    /\ registered_models.models # <<>>
    /\ passes < MaxPasses
    /\ passes' = passes + 1
    /\ registry' = registry \cup
           {RegistryCopy(registered_models.models[i]) :
               i \in {k \in DOMAIN registered_models.models : end[k] = "promoted"}}
    /\ promotion_result' =
           [promoted |-> OutcomesIn(end, {"promoted", "already_exists"}),
            failed |-> OutcomesIn(end, {"failed"})]
    /\ unverified' = Unverified(end, outs, registry')
    /\ UNCHANGED <<registered_models, approval_file_exists, approvals, statuses_met>>
    /\ UNCHANGED <<monitorVars, pipelineVars, standaloneVars>>

promote_to_registry ==
    \E outs \in [DOMAIN registered_models.models -> {o \in PromoteOutcomes : ~o.raises}] :
        UngatedPass(outs)

\* ---------------------------------------------------------- specification
\* The jobs file lists each job once: the names are those the backend gave to
\* the jobs it created.  The order of the file does not reach the loop (the
\* working set is a set, line 64), so one listing per set of jobs is enough.
JobLists == {CHOOSE s \in Orderings(S) : TRUE : S \in SUBSET JobNames}

\* The monitor before its first statement, for any jobs file, any settings and
\* any state of the backend's jobs.
MonitorInit ==
    /\ submitted_jobs \in JobLists
    /\ poll_interval \in 1..MaxPollInterval
    /\ max_wait_seconds \in 0..MaxWait
    /\ backend \in [JobNames -> Status]
    /\ \A j \in JobNames \ Range(submitted_jobs) : backend[j] = "Queued"
    /\ clock = 0
    /\ pc = "start"
    /\ start_time = 0
    /\ poll_count = 0
    /\ elapsed_seconds = 0
    /\ pending_job_names = {}
    /\ completed = <<>>
    /\ failed = <<>>
    /\ timeout_jobs = <<>>
    /\ to_poll = {}
    /\ slept = 0
    /\ errored = {}
    /\ terminal_at = [j \in JobNames |-> 0]
    /\ terminal_before = FALSE
    /\ raised_first = FALSE

\* The monitor not running.
MonitorIdle ==
    /\ submitted_jobs = <<>>
    /\ poll_interval = 1
    /\ max_wait_seconds = 0
    /\ backend = [j \in JobNames |-> "Queued"]
    /\ clock = 0
    /\ pc = "idle"
    /\ start_time = 0
    /\ poll_count = 0
    /\ elapsed_seconds = 0
    /\ pending_job_names = {}
    /\ completed = <<>>
    /\ failed = <<>>
    /\ timeout_jobs = <<>>
    /\ to_poll = {}
    /\ slept = 0
    /\ errored = {}
    /\ terminal_at = [j \in JobNames |-> 0]
    /\ terminal_before = FALSE
    /\ raised_first = FALSE

\* A fresh workspace with one circuit configured: nothing registered, no job.
PipelineStart ==
    /\ circuits_yaml = [u \in {AllUnits[1]} |-> DefaultEntry]
    /\ edits_left = MaxEdits
    /\ data_assets = [u \in Units |-> <<>>]
    /\ models = [u \in Units |-> <<>>]
    /\ jobs = {}
    /\ registered_circuits = [raised |-> FALSE, changed_circuits |-> <<>>]
    /\ training_jobs = [submitted_jobs |-> <<>>, failed_submissions |-> <<>>]
    /\ prev_data_hash = [u \in Units |-> NoHash]
    /\ prev_submit_hash = [u \in Units |-> NoHash]

\* The pipeline not running.
PipelineIdle ==
    /\ circuits_yaml = [u \in {AllUnits[1]} |-> DefaultEntry]
    /\ edits_left = 0
    /\ data_assets = [u \in Units |-> <<>>]
    /\ models = [u \in Units |-> <<>>]
    /\ jobs = {}
    /\ registered_circuits = [raised |-> FALSE, changed_circuits |-> <<>>]
    /\ training_jobs = [submitted_jobs |-> <<>>, failed_submissions |-> <<>>]
    /\ prev_data_hash = [u \in Units |-> NoHash]
    /\ prev_submit_hash = [u \in Units |-> NoHash]

\* The files of registered models: the candidates in any order.
CandidateFiles ==
    UNION {Orderings({Candidate(u) : u \in S}) : S \in SUBSET Range(PromotionUnits)}

NoResult ==
    [promoted |-> <<>>, already_exists |-> <<>>, pending_approval |-> <<>>,
     failed |-> <<>>]

\* Before the first promotion pass: any file of registered models, the
\* approval file there or not and saying anything, the registry empty.
PromotionStart ==
    /\ registered_models \in {[models |-> f, failed |-> <<>>] : f \in CandidateFiles}
    /\ approval_file_exists \in BOOLEAN
    /\ approvals \in [ApprovalKeys -> ApprovalStatus]
    /\ ~approval_file_exists => \A k \in ApprovalKeys : approvals[k] = "absent"
    /\ registry = {}
    /\ passes = 0
    /\ promotion_result = NoResult
    /\ statuses_met = [k \in ApprovalKeys |-> {}]
    /\ unverified = {}

\* No promotion running.
PromotionIdle ==
    /\ registered_models = [models |-> <<>>, failed |-> <<>>]
    /\ approval_file_exists = FALSE
    /\ approvals = [k \in ApprovalKeys |-> "absent"]
    /\ registry = {}
    /\ passes = 0
    /\ promotion_result = NoResult
    /\ statuses_met = [k \in ApprovalKeys |-> {}]
    /\ unverified = {}

\* No data asset registered by hand.
AssetIdle ==
    /\ dated_assets = [v \in VersionLabels |-> NoAsset]
    /\ asset_clock = 0

\* The hash functions not applied.
HasherIdle ==
    /\ fleet_size = 0
    /\ original = <<>>
    /\ original_hashes = <<>>
    /\ config = <<>>
    /\ config_hashes = <<>>
    /\ change = "idle"

\* No registrars racing.
RaceIdle == registrars = [r \in Registrars |-> [NotStarted EXCEPT !.pc = "idle"]]

StandaloneIdle == AssetIdle /\ HasherIdle /\ RaceIdle

\* A configuration of the bounded set and a fleet size, before the edit.
HasherStart ==
    /\ fleet_size \in FleetSizes
    /\ original \in Configs
    /\ original_hashes = Fingerprints(original)
    /\ config = original
    /\ config_hashes = original_hashes
    /\ change = "none"

Init == MonitorInit /\ PipelineIdle /\ PromotionIdle /\ StandaloneIdle

Next ==
    \/ ReturnNoJobs
    \/ Start
    \/ DeadlineExit
    \/ BeginPoll
    \/ \E j \in JobNames : QueryRaises(j)
    \/ \E j \in JobNames : QueryReports(j)
    \/ AllFinished
    \/ Sleep
    \/ \E j \in JobNames : BackendStep(j)

Spec == Init /\ [][Next]_vars

\* The monitor with the wall clock moving during the for loop as well, on a
\* jobs file of at most two jobs.
TimedInit == Init /\ Len(submitted_jobs) <= 2

TimedNext ==
    \/ Next
    \/ QueryTakesTime

TimedSpec == TimedInit /\ [][TimedNext]_vars

\* The same with the monitor's process scheduled: a step it can take is
\* taken.  Nothing is asked of the backend, whose jobs may stay as they are
\* for ever, nor of the clock beyond the time the monitor's own steps take
\* (the sleep of line 136 takes poll_interval at least).
LiveSpec == TimedSpec /\ WF_vars(MonitorStep)

PipelineInit == MonitorIdle /\ PipelineStart /\ PromotionIdle /\ StandaloneIdle

PipelineNext ==
    \/ \E u \in Units : EditCutoffDate(u)
    \/ \E u \in Units : EditHyperparameters(u)
    \/ \E name \in JobNamesInUse : JobStep(name)
    \/ register_mltables
    \/ submit_training_jobs
    \/ register_models

PipelineSpec == PipelineInit /\ [][PipelineNext]_vars

\* A fresh workspace with every circuit configured.
BatchStart ==
    /\ circuits_yaml = [u \in Range(AllUnits) |-> DefaultEntry]
    /\ edits_left = MaxEdits
    /\ data_assets = [u \in Units |-> <<>>]
    /\ models = [u \in Units |-> <<>>]
    /\ jobs = {}
    /\ registered_circuits = [raised |-> FALSE, changed_circuits |-> <<>>]
    /\ training_jobs = [submitted_jobs |-> <<>>, failed_submissions |-> <<>>]
    /\ prev_data_hash = [u \in Units |-> NoHash]
    /\ prev_submit_hash = [u \in Units |-> NoHash]

BatchInit == MonitorIdle /\ BatchStart /\ PromotionIdle /\ StandaloneIdle

\* The same with circuits.yaml as it was written by hand: any entry may lack
\* plant_id or circuit_id.
AnyConfigStart ==
    /\ circuits_yaml \in [Range(AllUnits) -> {DefaultEntry, EntryWithoutIds}]
    /\ edits_left = MaxEdits
    /\ data_assets = [u \in Units |-> <<>>]
    /\ models = [u \in Units |-> <<>>]
    /\ jobs = {}
    /\ registered_circuits = [raised |-> FALSE, changed_circuits |-> <<>>]
    /\ training_jobs = [submitted_jobs |-> <<>>, failed_submissions |-> <<>>]
    /\ prev_data_hash = [u \in Units |-> NoHash]
    /\ prev_submit_hash = [u \in Units |-> NoHash]

AnyConfigInit == MonitorIdle /\ AnyConfigStart /\ PromotionIdle /\ StandaloneIdle

\* One trip of a batch of circuits through the stages: each stage runs until
\* it has left something in the workspace, the hyperparameters may be edited
\* at any point, and the models registered are promoted.
BatchNext ==
    \/ \E u \in Units : EditHyperparameters(u)
    \/ (\A u \in Units : data_assets[u] = <<>>) /\ register_mltables
    \/ jobs = {} /\ submit_training_jobs
    \/ \E name \in JobNamesInUse : JobStep(name)
    \/ (\A u \in Units : models[u] = <<>>) /\ register_models
    \/ promote_models_individually

BatchSpec == BatchInit /\ [][BatchNext]_vars

AnyConfigSpec == AnyConfigInit /\ [][BatchNext]_vars

\* The registrars together: the stages of a batch, and register_mltable run
\* by hand at any point.
RegistrarNext ==
    \/ BatchNext
    \/ \E v \in VersionLabels, d \in DeltaVersions, accepted \in BOOLEAN :
           register_mltable(v, d, accepted)

RegistrarSpec == BatchInit /\ [][RegistrarNext]_vars

PromotionInit == MonitorIdle /\ PipelineIdle /\ PromotionStart /\ StandaloneIdle

PromotionNext ==
    \/ \E k \in ApprovalKeys : SetApproval(k)
    \/ promote_models_individually
    \/ promote_to_registry

PromotionSpec == PromotionInit /\ [][PromotionNext]_vars

HashInit ==
    MonitorIdle /\ PipelineIdle /\ PromotionIdle /\ AssetIdle /\ HasherStart
        /\ RaceIdle

\* The versions a unit's MLTable can have when the two registrars start:
\* none, one registered for another cutoff date, one registered for this
\* configuration, or both.
EarlierVersions ==
    LET other == [config_hash |->
                     config_hash(DefaultEntry.features, "2024-06-01",
                                 DefaultEntry.delta_version)]
        same == [config_hash |->
                     config_hash(DefaultEntry.features, DefaultEntry.cutoff_date,
                                 DefaultEntry.delta_version)]
    IN {<<>>, <<other>>, <<same>>, <<other, same>>, <<same, other>>}

\* One circuit configured, and two registrars about to run on it.
RaceInit ==
    /\ MonitorIdle /\ PromotionIdle /\ AssetIdle /\ HasherIdle
    /\ circuits_yaml = [u \in {RaceUnit} |-> DefaultEntry]
    /\ edits_left = 0
    /\ data_assets \in [Units -> EarlierVersions]
    /\ models = [u \in Units |-> <<>>]
    /\ jobs = {}
    /\ registered_circuits = [raised |-> FALSE, changed_circuits |-> <<>>]
    /\ training_jobs = [submitted_jobs |-> <<>>, failed_submissions |-> <<>>]
    /\ prev_data_hash = [u \in Units |-> NoHash]
    /\ prev_submit_hash = [u \in Units |-> NoHash]
    /\ registrars = [r \in Registrars |-> NotStarted]

RaceNext ==
    \/ \E r \in Registrars, o \in RegisterOutcomes : RaceCheck(r, o)
    \/ \E r \in Registrars, o \in RegisterOutcomes : RaceCreate(r, o)

RaceSpec == RaceInit /\ [][RaceNext]_vars

HashNext ==
    \/ \E i, j \in 1..6 : PermuteKeys(i, j)
    \/ PermuteHyperparameters
    \/ ReorderFeatures
    \/ \E m \in MetadataBlocks : SetMetadata(m)
    \/ \E d \in Descriptions : SetDescription(d)
    \/ \E key \in DOMAIN FieldValues : \E v \in FieldValues[key] : ChangeField(key, v)
    \/ \E k \in {"epochs", "lr"} : \E v \in HyperparameterValues :
           ChangeHyperparameter(k, v)
    \/ \E f \in FeatureLists : ChangeFeatures(f)
    \/ \E f \in FeatureLists : EditUnitFile(f)

HashSpec == HashInit /\ [][HashNext]_vars

\* ================================================================= claims
\* What monitor_training_jobs returns (lines 148-153).
Returned == pc = "done"

Results == completed \o failed \o timeout_jobs

\* C1: when monitor_training_jobs returns, every submitted job is in exactly
\* one of completed, failed, timeout: no job appears twice in or across the
\* three lists, none is missing, and the sizes sum to the number of jobs.
C1_MonitorPartition ==
    Returned =>
        /\ NoDup(Results)
        /\ Range(Results) = Range(submitted_jobs)
        /\ Range(completed) \cap Range(failed) = {}
        /\ Range(completed) \cap Range(timeout_jobs) = {}
        /\ Range(failed) \cap Range(timeout_jobs) = {}
        /\ Len(completed) + Len(failed) + Len(timeout_jobs) = Len(submitted_jobs)

C1_Witness ==
    /\ Returned
    /\ completed # <<>>
    /\ failed # <<>>
    /\ timeout_jobs # <<>>

\* C2: an iteration that begins with more wall-clock time elapsed than the
\* configured maximum puts every pending job in timeout, none of them in
\* completed or failed, and leaves the loop.
C2_DeadlineMarksTimeout ==
    [][ (/\ pc = "loop"
         /\ poll_count' = poll_count + 1
         /\ clock - start_time > max_wait_seconds)
        => (/\ pc' = "done"
            /\ Range(timeout_jobs') = pending_job_names
            /\ Len(timeout_jobs') = Cardinality(pending_job_names)
            /\ completed' = completed
            /\ failed' = failed
            /\ Range(completed') \cap pending_job_names = {}
            /\ Range(failed') \cap pending_job_names = {}) ]_vars

C2_Witness ==
    /\ Returned
    /\ elapsed_seconds > max_wait_seconds
    /\ Len(timeout_jobs) >= 2
    /\ completed # <<>>

\* The partition the backend state dictates: Completed jobs in completed,
\* Failed and Canceled jobs in failed, nothing in timeout.
PartitionOfBackend ==
    /\ Range(completed) = {j \in Range(submitted_jobs) : backend[j] = "Completed"}
    /\ Range(failed) = {j \in Range(submitted_jobs) : backend[j] \in {"Failed", "Canceled"}}
    /\ timeout_jobs = <<>>
    /\ NoDup(Results)

FirstCheckFired == poll_count = 1 /\ elapsed_seconds > max_wait_seconds

C4_QueryErrorKeepsPending ==
    /\ [][ (pc = "poll" /\ pc' = "poll" /\ errored' # errored)
           => (/\ pending_job_names' = pending_job_names
               /\ (errored' \ errored) \subseteq pending_job_names'
               /\ completed' = completed
               /\ failed' = failed
               /\ timeout_jobs' = timeout_jobs
               /\ to_poll' = to_poll \ (errored' \ errored)) ]_vars
    /\ [][ (pc = "poll" /\ pc' # "poll") => to_poll = {} ]_vars
    /\ [][ (pc = "loop" /\ pc' = "poll") => errored \subseteq to_poll' ]_vars
    /\ [](errored \subseteq pending_job_names)

C4_Witness ==
    /\ pc = "poll"
    /\ poll_count = 2
    /\ to_poll = {}
    /\ errored # {}
    /\ raised_first
    /\ completed # <<>>
    /\ failed # <<>>

\* C5: three jobs, A read as Completed in the first poll, B read as Failed in
\* the second, C never terminal, maximum wait of two poll intervals: the
\* monitor returns completed = [A], failed = [B], timeout = [C].
C5_Scenario ==
    (/\ Returned
     /\ Range(submitted_jobs) = {"A", "B", "C"}
     /\ max_wait_seconds = 2 * poll_interval
     /\ terminal_at["A"] = 1 /\ backend["A"] = "Completed"
     /\ terminal_at["B"] = 2 /\ backend["B"] = "Failed"
     /\ terminal_at["C"] = 0 /\ backend["C"] \in NonTerminalStatus)
    => (/\ completed = <<"A">>
        /\ failed = <<"B">>
        /\ timeout_jobs = <<"C">>)

C5_Witness ==
    /\ Returned
    /\ Range(submitted_jobs) = {"A", "B", "C"}
    /\ max_wait_seconds = 2 * poll_interval
    /\ terminal_at["A"] = 1 /\ backend["A"] = "Completed"
    /\ terminal_at["B"] = 2 /\ backend["B"] = "Failed"
    /\ terminal_at["C"] = 0 /\ backend["C"] \in NonTerminalStatus
    /\ timeout_jobs = <<"C">>

\* ------------------------------------------------------- pipeline claims
\* The jobs of a unit the backend holds that have not ended.
InFlight(u) == {j \in jobs : j.unit = u /\ j.status = "Running"}

\* The jobs of a unit the backend holds.
JobsOf(js, u) == {j \in js : j.unit = u}

\* C6: for any unit, at most one training job is in flight (submitted and
\* not yet terminal at the backend) at any time, over any sequence of runs
\* of the submission stage, a new data version registered in between
\* included.
C6_OneJobInFlight == \A u \in Units : Cardinality(InFlight(u)) <= 1

\* C7: registering a data resource twice under the same name and
\* fingerprint creates exactly one version: no two versions of a unit's
\* MLTable carry the same fingerprint.
C7_IdempotentRegistration ==
    \A u \in Units : \A i, k \in DOMAIN data_assets[u] :
        data_assets[u][i].config_hash = data_assets[u][k].config_hash => i = k

\* C8: when the registry query for a unit's last known fingerprint fails,
\* the unit is not classified as needing work and neither a registration
\* nor a training job is triggered for it: a submission run whose model
\* query fails does not select the unit and creates no job for it, and a
\* registration run whose check query fails creates no version for it.
C8_QueryFailureTriggersNothing ==
    [][/\ \A outs \in [Units -> SubmitOutcomes] :
              SubmitRun(outs) =>
                  \A u \in Units :
                      ~outs[u].model_query_ok =>
                          /\ u \notin CircuitsToTrain(training_jobs')
                          /\ JobsOf(jobs', u) = JobsOf(jobs, u)
       /\ \A outs \in [Units -> RegisterOutcomes] :
              RegisterRun(outs) =>
                  \A u \in Units :
                      ~outs[u].query_ok => data_assets'[u] = data_assets[u]
      ]_vars

\* C9: determine_circuits_to_train selects a unit if and only if no
\* fingerprint is recorded on the unit's most recently registered model or
\* the freshly computed training fingerprint differs from the recorded one.
C9_SelectedIffChanged ==
    [][\A outs \in [Units -> SubmitOutcomes] :
           SubmitRun(outs) =>
               \A u \in Units :
                   u \in CircuitsToTrain(training_jobs') <=>
                       \/ models[u] = <<>>
                       \/ calculate_training_hash(circuits_yaml[u])
                              # Last(models[u]).training_hash
      ]_vars

\* C10: if a unit's data-relevant fields are unchanged between two
\* consecutive runs of the pipeline, the second run creates no new data
\* version for the unit and submits no training job for it.  The first of
\* the two runs is one that went through for the unit: its registration
\* ended in a version registered or found, its submission in the unit
\* skipped or its job accepted, and no data field was edited since.
C10_UnchangedDataNoWork ==
    [][/\ \A outs \in [Units -> RegisterOutcomes] :
              RegisterRun(outs) =>
                  \A u \in Units :
                      prev_data_hash[u] = DataHash(u) =>
                          data_assets'[u] = data_assets[u]
       /\ \A outs \in [Units -> SubmitOutcomes] :
              SubmitRun(outs) =>
                  \A u \in Units :
                      prev_submit_hash[u] = DataHash(u) =>
                          JobsOf(jobs', u) = JobsOf(jobs, u)
      ]_vars

\* ------------------------------------------------------ promotion claims
\* A step that is a pass of promote_models_individually: its output has the
\* four lists (lines 241-246).
GatedStep ==
    /\ passes' = passes + 1
    /\ DOMAIN promotion_result' = DOMAIN NoResult

\* A step that is a pass of promote_to_registry: its output has two lists
\* (promote_to_registry.py line 133).
UngatedStep ==
    /\ passes' = passes + 1
    /\ DOMAIN promotion_result' = {"promoted", "failed"}

\* The entries a result holds for a model, over all its lists.
EntriesOf(result, model) ==
    {<<f, n>> \in UNION {{f} \X DOMAIN result[f] : f \in DOMAIN result} :
        /\ result[f][n].unit = model.unit
        /\ result[f][n].version = model.version}

\* The statuses a result gives a model.
StatusesOf(result, model) ==
    {result[e[1]][e[2]].status : e \in EntriesOf(result, model)}

\* C11: promoting the same model name and version twice leaves exactly one
\* copy in the registry: a promotion of a version that is in the registry
\* (and, where approval is asked, approved) ends in already_exists, not in
\* promoted or failed, in either promotion script, and the registry never
\* holds two copies of one name and version.
C11_PromotionIdempotent ==
    [][/\ GatedStep =>
              \A i \in DOMAIN registered_models.models :
                  (/\ check_approval_status(registered_models.models[i])
                   /\ ModelKey(registered_models.models[i]) \in RegistryKeys(registry))
                  => StatusesOf(promotion_result', registered_models.models[i])
                         \subseteq {"already_exists", "error"}
       /\ UngatedStep =>
              \A i \in DOMAIN registered_models.models :
                  ModelKey(registered_models.models[i]) \in RegistryKeys(registry)
                  => StatusesOf(promotion_result', registered_models.models[i])
                         = {"already_exists"}
       /\ \A c1, c2 \in registry' : ModelKey(c1) = ModelKey(c2) => c1 = c2
      ]_vars

\* C12: with the approval file in place, a model whose key has no entry
\* gets pending_approval from a gated pass (unless processing it raises)
\* and the pass leaves the registry without a copy of it; a gated pass that
\* finds the key approved and the version not in the registry promotes it:
\* it ends in promoted with the copy in the registry, or in failed when the
\* copy itself fails or processing raises, never in pending_approval.
C12_PendingThenPromoted ==
    [][GatedStep =>
           \A i \in DOMAIN registered_models.models :
               LET model == registered_models.models[i]
                   k == ModelKey(model)
                   statuses == StatusesOf(promotion_result', model)
               IN approval_file_exists =>
                   /\ approvals[k] = "absent" =>
                          /\ statuses \subseteq {"pending_approval", "error"}
                          /\ k \in RegistryKeys(registry') <=> k \in RegistryKeys(registry)
                   /\ (approvals[k] = "approved" /\ k \notin RegistryKeys(registry)) =>
                          /\ statuses \subseteq {"promoted", "failed", "error"}
                          /\ statuses = {"promoted"} <=> RegistryCopy(model) \in registry'
      ]_vars

\* A model was left pending for want of an entry, and a later gated pass
\* promoted it once approved.
C12_Witness ==
    /\ DOMAIN promotion_result = DOMAIN NoResult
    /\ \E n \in DOMAIN promotion_result.promoted :
        LET o == promotion_result.promoted[n]
            k == <<o.unit, o.version>>
        IN /\ o.status = "promoted"
           /\ "absent" \in statuses_met[k]
           /\ approval_file_exists /\ approvals[k] = "approved"
           /\ k \in RegistryKeys(registry)

\* C13: a model version is copied into the registry only when the approval
\* signal for its key is approved: no step adds a copy for a key whose
\* entry in the approval source is not "approved".
C13_PromotedOnlyIfApproved ==
    [][\A k \in RegistryKeys(registry') \ RegistryKeys(registry) :
           approval_file_exists /\ approvals[k] = "approved"
      ]_vars

\* C14: a rejected model version is never promoted by a later pass, and a
\* gated pass reports a rejected version with an outcome other than the one
\* it gives a pending version.
C14_RejectedIsTerminal ==
    [][/\ \A k \in ApprovalKeys :
              "rejected" \in statuses_met[k] =>
                  (k \in RegistryKeys(registry') => k \in RegistryKeys(registry))
       /\ GatedStep =>
              \A i \in DOMAIN registered_models.models :
                  (/\ approval_file_exists
                   /\ approvals[ModelKey(registered_models.models[i])] = "rejected")
                  => "pending_approval"
                         \notin StatusesOf(promotion_result', registered_models.models[i])
      ]_vars

\* C15: in a pass of promote_models_individually every model of the file
\* appears exactly once in the four result lists (promoted, already_exists,
\* pending_approval, failed), and a model that is approved and not in the
\* registry is promoted, or failed by its own copy or error, whatever
\* happened to the models before it.
C15_EveryCandidateOneOutcome ==
    [][GatedStep =>
           \A i \in DOMAIN registered_models.models :
               LET model == registered_models.models[i]
                   statuses == StatusesOf(promotion_result', model)
               IN
               /\ Cardinality(EntriesOf(promotion_result', model)) = 1
               /\ (/\ check_approval_status(model)
                   /\ ModelKey(model) \notin RegistryKeys(registry)) =>
                      /\ statuses \subseteq {"promoted", "failed", "error"}
                      /\ statuses = {"promoted"} <=> RegistryCopy(model) \in registry'
      ]_vars

\* The first model of the file failed or raised, and the second was
\* promoted in the same gated pass.
C15_Witness ==
    /\ DOMAIN promotion_result = DOMAIN NoResult
    /\ Len(registered_models.models) = 2
    /\ StatusesOf(promotion_result, registered_models.models[1]) \subseteq {"failed", "error"}
    /\ StatusesOf(promotion_result, registered_models.models[1]) # {}
    /\ StatusesOf(promotion_result, registered_models.models[2]) = {"promoted"}
    /\ RegistryCopy(registered_models.models[2]) \in registry
    /\ RegistryCopy(registered_models.models[1]) \notin registry

\* ---------------------------------------------------------- batch claims
\* The entries the lists of a submission result hold for a unit.
SubmittedFor(result, u) ==
    {i \in DOMAIN result.submitted_jobs : result.submitted_jobs[i].unit = u}

FailedFor(result, u) ==
    {i \in DOMAIN result.failed_submissions : result.failed_submissions[i].unit = u}

\* C16: in one submission run every unit selected for training ends in
\* exactly one of submitted_jobs or failed_submissions and a unit not
\* selected in neither; a selected unit whose data lookup fails or whose
\* submit call is refused is in failed_submissions with its error, and a
\* selected unit whose lookup and submit call go through is in
\* submitted_jobs with its job at the backend, whatever the other units met.
C16_EveryUnitOneList ==
    [][\A outs \in [Units -> SubmitOutcomes] :
           SubmitRun(outs) =>
               \A u \in Units :
                   LET sub == SubmittedFor(training_jobs', u)
                       fl == FailedFor(training_jobs', u)
                       found == outs[u].data_query_ok /\ data_assets[u] # <<>>
                       name == JobName(u, circuits_yaml[u].cutoff_date,
                                       Len(data_assets[u]))
                   IN
                   IF ~Selected(u, outs[u].model_query_ok)
                   THEN sub = {} /\ fl = {}
                   ELSE /\ Cardinality(sub) + Cardinality(fl) = 1
                        /\ ~found =>
                               \E i \in fl :
                                   training_jobs'.failed_submissions[i].error
                                       = "MLTable not found"
                        /\ (found /\ ~JobCreated(name, outs[u].create_ok)) => fl # {}
                        /\ (found /\ JobCreated(name, outs[u].create_ok)) =>
                               /\ sub # {}
                               /\ \E j \in jobs' \ jobs : j.name = name /\ j.unit = u
      ]_vars

\* The first unit of the batch is in failed_submissions, and the second,
\* which comes after it in the loop, was submitted in the same run.
C16_Witness ==
    /\ FailedFor(training_jobs, AllUnits[1]) # {}
    /\ SubmittedFor(training_jobs, AllUnits[2]) # {}
    /\ \E j \in jobs : j.unit = AllUnits[2]

\* C17: the training hash computed when a job is submitted is the one on
\* the backend job, on the model registered from that job and on the copy
\* promoted to the registry: a job is created with the hash of the
\* configuration as it is at submission, no step changes the hash of a job,
\* each model version carries the hash of the job it names, and each
\* registry copy the hash of the model version it copies.
C17_LineageTag ==
    [][/\ \A j \in jobs' \ jobs :
              \/ j.training_hash = calculate_training_hash(circuits_yaml[j.unit])
              \/ \E old \in jobs : old.name = j.name /\ old.training_hash = j.training_hash
       /\ \A j \in jobs : \E new \in jobs' :
              new.name = j.name /\ new.training_hash = j.training_hash
       /\ \A n \in DOMAIN training_jobs'.submitted_jobs :
              \E j \in jobs' :
                  /\ j.name = training_jobs'.submitted_jobs[n].job_name
                  /\ j.training_hash = training_jobs'.submitted_jobs[n].training_hash
       /\ \A u \in Units : \A i \in DOMAIN models'[u] :
              \E j \in jobs' :
                  /\ j.name = models'[u][i].training_job
                  /\ j.unit = u
                  /\ j.training_hash = models'[u][i].training_hash
       /\ \A copy \in registry' :
              /\ copy.version \in DOMAIN models'[copy.unit]
              /\ models'[copy.unit][copy.version].training_hash = copy.training_hash
      ]_vars

\* A promoted copy carries the hash of its job although the unit's
\* configuration was edited after the submission and hashes differently now.
C17_Witness ==
    \E copy \in registry :
        /\ copy.training_hash # calculate_training_hash(circuits_yaml[copy.unit])
        /\ models[copy.unit][copy.version].training_hash = copy.training_hash
        /\ \E j \in jobs :
               /\ j.name = models[copy.unit][copy.version].training_job
               /\ j.status = "Completed"
               /\ j.training_hash = copy.training_hash

\* C18: a run of the model registration stage over a job whose model is
\* registered already (a version of the unit's model names the job and
\* carries its training hash) creates no further version of the model.
C18_ModelRegistrationIdempotent ==
    [][\A outs \in [Units -> ModelOutcomes] :
           RegisterModelsRun(outs) =>
               \A n \in DOMAIN training_jobs.submitted_jobs :
                   LET info == training_jobs.submitted_jobs[n] IN
                   (\E i \in DOMAIN models[info.unit] :
                        /\ models[info.unit][i].training_job = info.job_name
                        /\ models[info.unit][i].training_hash = info.training_hash)
                   => models'[info.unit] = models[info.unit]
      ]_vars

\* What the monitor hands to its main.
MonitorResult ==
    [completed |-> completed, failed |-> failed, timeout |-> timeout_jobs]

\* C19: each stage exits non-zero exactly when a unit failed in it: the
\* submission stage when failed_submissions is non-empty, the model
\* registration stage when its failed list is non-empty, the monitor when
\* failed or timeout is non-empty.
C19_ExitStatus ==
    [][/\ \A outs \in [Units -> SubmitOutcomes] :
              SubmitRun(outs) =>
                  (submit_main(training_jobs') # 0
                       <=> training_jobs'.failed_submissions # <<>>)
       /\ \A outs \in [Units -> ModelOutcomes] :
              RegisterModelsRun(outs) =>
                  (register_models_main(registered_models') # 0
                       <=> registered_models'.failed # <<>>)
       /\ (pc # "done" /\ pc' = "done") =>
              (monitor_main(MonitorResult') # 0
                   <=> (failed' # <<>> \/ timeout_jobs' # <<>>))
      ]_vars

\* C20: in a run of the data registration stage a failed unit does not keep
\* the other units from being processed, and every unit the run registered
\* a version for is in the list the run hands on.
C20_RegisteredUnitsReported ==
    [][\A outs \in [Units -> RegisterOutcomes] :
           RegisterRun(outs) =>
               \A u \in Units :
                   /\ RegisterUnit(u, outs[u]) = "registered" =>
                          Len(data_assets'[u]) = Len(data_assets[u]) + 1
                   /\ Len(data_assets'[u]) > Len(data_assets[u]) =>
                          u \in Range(registered_circuits'.changed_circuits)
      ]_vars

\* C21: a unit whose entry lacks plant_id or circuit_id is skipped and the
\* other units of the batch are still processed: in a run of the data
\* registration every unit that has the keys and whose registration goes
\* through gets its version, and in a submission run every unit that has
\* the keys, is selected, has its MLTable found and its job accepted gets
\* its job.
C21_MalformedUnitSkipped ==
    [][/\ \A outs \in [Units -> RegisterOutcomes] :
              RegisterRun(outs) =>
                  \A u \in Units :
                      (/\ circuits_yaml[u].ids_present
                       /\ RegisterUnit(u, outs[u]) = "registered")
                      => Len(data_assets'[u]) = Len(data_assets[u]) + 1
       /\ \A outs \in [Units -> SubmitOutcomes] :
              SubmitRun(outs) =>
                  \A u \in Units :
                      (/\ circuits_yaml[u].ids_present
                       /\ SubmitUnit(u, outs[u]) = "submitted")
                      => \E j \in jobs' \ jobs : j.unit = u
      ]_vars

\* ------------------------------------------------- monitor claims, again
\* The locals of monitor_training_jobs: a step that changes one of them is a
\* step of the monitor.
monitorLocals ==
    <<pc, start_time, poll_count, elapsed_seconds, pending_job_names,
      completed, failed, timeout_jobs, to_poll>>

\* C22: the monitor never changes a backend job: a step of the monitor
\* leaves the status of every job as it was, and the step that marks the
\* timeout ends the polling and leaves the status of every job it marks.
C22_MonitorLeavesBackend ==
    [][/\ monitorLocals' # monitorLocals => backend' = backend
       /\ timeout_jobs' # timeout_jobs =>
              /\ pc' = "done"
              /\ \A j \in Range(timeout_jobs') : backend'[j] = backend[j]
      ]_vars

\* The monitor has returned on timeout and a job it marked is still running
\* at the backend.
C22_Witness ==
    /\ pc = "done"
    /\ \E j \in Range(timeout_jobs) : backend[j] = "Running"

\* C29: a job leaves the pending set only in a poll whose status query
\* reported Completed (the job is appended to completed) or Failed or
\* Canceled (appended to failed); a query reporting any other status keeps
\* it pending; a job in completed or failed is not queried again and stays
\* where it is.
C29_LeavesPendingOnTerminal ==
    [][/\ \A j \in pending_job_names \ pending_job_names' :
              /\ pc = "poll" /\ j \in to_poll /\ j \notin to_poll'
              /\ \/ /\ backend[j] = "Completed"
                    /\ completed' = Append(completed, j) /\ failed' = failed
                 \/ /\ backend[j] \in {"Failed", "Canceled"}
                    /\ failed' = Append(failed, j) /\ completed' = completed
       /\ \A j \in JobNames :
              QueryReports(j) =>
                  (j \in pending_job_names' <=> backend[j] \notin TerminalStatus)
       /\ \A j \in Range(completed) \cup Range(failed) :
              /\ j \notin pending_job_names' /\ j \notin to_poll'
              /\ j \in Range(completed) <=> j \in Range(completed')
              /\ j \in Range(failed) <=> j \in Range(failed')
              /\ j \notin Range(timeout_jobs')
       /\ NoDup(completed' \o failed')
      ]_vars

\* The monitor returned after a job was kept pending through a poll and moved
\* to completed by a later one, and a canceled job was moved to failed.
C29_Witness ==
    /\ pc = "done"
    /\ \E j \in Range(completed) : terminal_at[j] >= 2
    /\ \E j \in Range(failed) : backend[j] = "Canceled"

IsPrefix(s, t) == Len(s) <= Len(t) /\ SubSeq(t, 1, Len(s)) = s

\* C28: the registry is append-only under every registrar: a step leaves
\* every existing version of a data asset or model as it is, tags included,
\* and adds at most one version per resource.
C28_AppendOnly ==
    [][/\ \A u \in Units :
              /\ IsPrefix(data_assets[u], data_assets'[u])
              /\ Len(data_assets'[u]) <= Len(data_assets[u]) + 1
              /\ IsPrefix(models[u], models'[u])
              /\ Len(models'[u]) <= Len(models[u]) + 1
       /\ \A v \in VersionLabels :
              dated_assets[v].exists => dated_assets'[v] = dated_assets[v]
      ]_vars

\* ----------------------------------------------------- fingerprint claims
\* C23: the fingerprints are invariant under reordering: permuting the keys
\* of the configuration or of its hyperparameters, or the order of the
\* feature list, leaves generate_config_hash, the data fingerprint and the
\* training fingerprint as they were.
C23_OrderInvariant ==
    change \in {"permute_keys", "permute_hyperparameters", "reorder_features"}
        => config_hashes = original_hashes

\* C24: a field outside the declared field set never changes a fingerprint:
\* a metadata block changes none of the three, and a field other than those
\* hashed changes neither the data nor the training fingerprint.
C24_FieldIsolation ==
    /\ change = "metadata" => config_hashes = original_hashes
    /\ change = "unrelated_field" =>
           /\ config_hashes.data = original_hashes.data
           /\ config_hashes.training = original_hashes.training

\* A metadata block was written into an entry, or replaced, and the three
\* fingerprints are what they were.
C24_Witness ==
    /\ change = "metadata"
    /\ Has(config.entry, "metadata")
    /\ config.entry # original.entry
    /\ config_hashes = original_hashes

\* C25: a change to the value of a declared field changes the string that
\* is hashed and with it the fingerprint: features, cutoff_date and
\* delta_version change all three fingerprints, environment_version and a
\* hyperparameter value the training fingerprint and generate_config_hash.
C25_Sensitivity ==
    /\ change \in {"features", "cutoff_date", "delta_version"} =>
           config_hashes.data # original_hashes.data
    /\ change \in {"features", "cutoff_date", "delta_version",
                    "environment_version", "hyperparameters"} =>
           /\ config_hashes.training # original_hashes.training
           /\ config_hashes.config # original_hashes.config

\* C26: the two flavours are kept apart and nested: a change to the
\* hyperparameters or the environment version only changes the training
\* fingerprint and leaves the data fingerprint, and every change that
\* alters the data fingerprint alters the training fingerprint.
C26_FlavoursNested ==
    /\ change \in {"hyperparameters", "environment_version"} =>
           /\ config_hashes.training # original_hashes.training
           /\ config_hashes.data = original_hashes.data
    /\ config_hashes.data # original_hashes.data =>
           config_hashes.training # original_hashes.training

\* C27: every fingerprint has a length between 8 and 12 characters for
\* which the collision estimate of the fleet, n^2 / (2 * 16^length), is
\* below 1e-9.
C27_CollisionBound ==
    change # "idle" =>
        \A flavour \in DOMAIN config_hashes :
            /\ config_hashes[flavour].length \in 8..12
            /\ CollisionBelowBillionth(fleet_size, config_hashes[flavour].length)

\* C31: every model version reported with the outcome promoted was found in
\* the registry by the re-query made after its copy: when that re-query does
\* not return 0, the model is not reported as promoted.  (Holds for the
\* ungated pass as well, whose list promoted is read the same way.)
C31_PromotedIsVerified ==
    \A i \in DOMAIN promotion_result.promoted :
        promotion_result.promoted[i].status = "promoted"
            => ModelKey(promotion_result.promoted[i]) \notin unverified

\* C32: the data version a training job is submitted against is one
\* registered for the unit's current data configuration: the config_hash tag
\* of the version named in the job equals the data fingerprint the unit has
\* when the job is submitted.
C32_SubmittedAgainstMatchingData ==
    [][\A outs \in [Units -> SubmitOutcomes] :
           SubmitRun(outs) =>
               \A i \in DOMAIN training_jobs'.submitted_jobs :
                   LET job == training_jobs'.submitted_jobs[i] IN
                   data_assets[job.unit][job.job_name[3]].config_hash
                       = DataHash(job.unit)
      ]_vars

\* C34: the pipeline reaches a fixed point.  Once register_models has
\* registered a unit's model with its job's training_hash, a later run of the
\* submission stage on a configuration whose training fingerprint is that of
\* the model registered last submits no job for the unit, however many
\* models the unit has.
C34_FixedPoint ==
    [][\A outs \in [Units -> SubmitOutcomes] :
           SubmitRun(outs) =>
               \A u \in Units :
                   (/\ models[u] # <<>>
                    /\ Last(models[u]).training_hash
                           = calculate_training_hash(circuits_yaml[u]))
                       => SubmittedFor(training_jobs', u) = {}
      ]_vars

\* The versions of the racing unit's MLTable tagged with its fingerprint.
Tagged ==
    {i \in DOMAIN data_assets[RaceUnit] :
        data_assets[RaceUnit][i].config_hash = DataHash(RaceUnit)}

\* Registrar r made its check when the version s created was listed.
CheckedAfterCreate(r, s) ==
    /\ registrars[s].created # 0
    /\ registrars[r].pc # "check"
    /\ registrars[r].seen >= registrars[s].created

\* C33: with two registrars running check-then-create at the same time for
\* one name and fingerprint, creation is at-least-once: when both have
\* finished (each having found the version or created one; a run that
\* ended on a missing file or a refused creation is left aside), a version
\* tagged with the fingerprint exists; a registrar whose check ran after the
\* other's creation creates nothing; and two versions carry the fingerprint
\* only when both registrars created one, each having checked before the
\* other created.
C33_AtLeastOnce ==
    /\ (\A r \in Registrars : registrars[r].end \in {"skipped", "registered"})
           => Tagged # {}
    /\ \A r, s \in Registrars :
           (r # s /\ CheckedAfterCreate(r, s)) => registrars[r].created = 0
    /\ Cardinality(Tagged) > 1 =>
           \A r, s \in Registrars :
               r # s => /\ registrars[r].created # 0
                        /\ ~CheckedAfterCreate(r, s)

\* C35: with the wall clock advancing, monitor_training_jobs eventually
\* returns, whatever the backend does: also when jobs never reach a terminal
\* status and when status queries raise on every poll.
C35_MonitorReturns == <>Returned

\* The monitor has returned although a job was never terminal at the
\* backend and a status query raised in the last poll cycle.
C35_Witness ==
    /\ Returned
    /\ slept >= 1
    /\ errored # {}
    /\ \E j \in Range(timeout_jobs) : backend[j] \in NonTerminalStatus

\* A status query is issued.
StatusQuery == \E j \in JobNames : QueryRaises(j) \/ QueryReports(j)

\* What the claim says besides the order of check and queries: an
\* iteration that begins after the deadline issues no query and reports as
\* timeout the jobs the poll cycle before it left pending, all of them and
\* no other, whatever their status at the backend; nothing touches the
\* pending set between the end of a poll cycle and the check; nothing is
\* queried after the return.
TimeoutIsWhatWasLeftPending ==
    /\ (/\ pc = "loop"
        /\ clock - start_time > max_wait_seconds
        /\ monitorLocals' # monitorLocals)
           => /\ pc' = "done"
              /\ ~StatusQuery
              /\ to_poll' = to_poll
              /\ Range(timeout_jobs') = pending_job_names
              /\ Len(timeout_jobs') = Cardinality(pending_job_names)
    /\ pc = "loop" => pending_job_names' = pending_job_names
    /\ pc = "done" => (pc' = "done" /\ ~StatusQuery)

\* C36 as stated: the deadline check precedes the status queries of every
\* iteration, and once the deadline has passed, by the wall clock, no
\* further status query is issued.
C36_DeadlineBeforeQueries_AsStated ==
    [][/\ StatusQuery => ~(clock - start_time > max_wait_seconds)
       /\ TimeoutIsWhatWasLeftPending
      ]_vars

\* C36: in every iteration of the monitor loop the deadline check precedes
\* the status queries: a status query is issued only in an iteration whose
\* check, made on the time read at the head of the iteration, did not find
\* the deadline passed; once a check has found it passed no further status
\* query is issued, and the jobs reported as timeout are exactly those left
\* pending by the previous poll cycle, whatever the backend reports for them
\* at that moment.
C36_DeadlineBeforeQueries ==
    [][/\ StatusQuery => ~(elapsed_seconds > max_wait_seconds)
       /\ TimeoutIsWhatWasLeftPending
      ]_vars

\* The monitor has returned on a deadline found passed after a poll cycle
\* and a sleep, with a job in timeout that was terminal at the backend when
\* the check was made.
C36_Witness ==
    /\ Returned
    /\ slept >= 1
    /\ elapsed_seconds > max_wait_seconds
    /\ \E j \in Range(timeout_jobs) : backend[j] \in TerminalStatus
====
